---------------------------- MODULE Spec2Model ----------------------------
(***************************************************************************)
(* A model of the remote-desktop server's concurrent core:                 *)
(*   - the shutdown coordinator (crates/server/src/signal_handler.rs),     *)
(*   - the clipboard manager    (crates/server/src/clipboard/mod.rs),      *)
(*     and, lock by lock, its two mutexes,                                 *)
(*   - the frame channel and a session's frame forwarding                  *)
(*     (crates/server/src/capture/mod.rs, src/streaming/mod.rs),           *)
(*   - the capture units        (crates/server/src/capture/x11_capture.rs),*)
(*   - the Monitor Directory    (crates/server/src/capture/monitor.rs),    *)
(*   - the /stream and /create_user routes (crates/server/src/web/routes). *)
(* Each subsystem has its own specification over the shared variables;     *)
(* the variables of the other subsystems stay at their initial values.     *)
(***************************************************************************)
EXTENDS Integers, Sequences, FiniteSets, TLC

(***************************************************************************)
(* Bounds of the model.                                                    *)
(***************************************************************************)
\* Units registered with register_thread / register_async_thread.
MaxUnits == 2
\* Distinct handles signal() hands out to the application.
MaxClones == 1
\* Calls of set_content.
MaxSets == 2
\* Changes of the host clipboard by another application.
MaxCopies == 1
\* Frames published on the frame channel.
MaxFrames == 102
\* Items a session's receiver holds unread (frames, or clipboard contents).
MaxQueued == 1
\* Server messages sent on one connection.
MaxOut == 3
\* Inbound messages one connection's stream yields.
MaxInbound == 2
\* Outputs the X server reports to the Monitor Directory.
MaxOutputs == 2
\* create_user requests in flight or answered.
MaxRequests == 3
\* Capture units spawned by the calls of CaptureManager::start.
MaxCapUnits == 3
\* Frames one capture unit publishes.
MaxUnitFrames == 1
\* The grace period, in ticks of the monitor's polling interval (50 ms).
GraceTicks == 2

VARIABLES
    cells,           \* the AtomicBool behind every ShutdownSignal ever created
    main_signal,     \* ShutdownCoordinator.main_signal (a handle: an index of cells)
    threads,         \* ShutdownCoordinator.threads: the ManagedThread registry
    timeout,         \* ShutdownCoordinator.timeout, in ticks
    clones,          \* the set of handles signal() returned to the application
    thread_signals,  \* the monitor closure's captured (name, signal) list
    mon_main,        \* the monitor closure's captured clone of main_signal
    monPc,           \* the monitor thread's position in its loop
    monI,            \* the monitor's index into thread_signals
    timeout_signal,  \* the timeout closure's captured clone of main_signal
    tmoPc,           \* the timeout thread's position
    elapsed,         \* timeout_start.elapsed(), in ticks, capped above timeout
    exited,          \* std::process::exit(0) was called
    waitPc,          \* the caller's position in wait_for_completion
    joinI,           \* index of the thread wait_for_completion is joining
    failed_threads,  \* wait_for_completion's failed_threads
    mainSetter       \* who stored TRUE into the main signal first

coordVars == <<cells, main_signal, threads, timeout, clones, thread_signals,
               mon_main, monPc, monI, timeout_signal, tmoPc, elapsed, exited,
               waitPc, joinI, failed_threads, mainSetter>>

(* The clipboard manager (crates/server/src/clipboard/mod.rs). *)
VARIABLES
    host,            \* the host clipboard's text (what arboard reads and writes)
    last_content,    \* ClipboardManager.last_content
    cbHolder,        \* who holds the ClipboardManager.clipboard mutex
    setArg,          \* the `content` argument of the set_content in progress
    setResult,       \* what the last finished set_content returned
    pollPc,          \* the polling task's position in its loop
    pollContent,     \* the poll loop's local `content`
    clip_sent,       \* every ClipboardContent text passed to sender.send, in order
    nSets,           \* set_content calls made so far
    nCopies,         \* external changes of the host clipboard so far
    afterSet         \* <<X, n>>: set_content(X) returned, n poll reads since, no
                     \* external change since; <<>> otherwise

clipVars == <<host, last_content, cbHolder, setArg, setResult, pollPc, pollContent,
              clip_sent, nSets, nCopies, afterSet>>

(* The frame channel (crates/server/src/capture/mod.rs) and each session's *)
(* frame-forwarding task (crates/server/src/streaming/mod.rs).             *)
VARIABLES
    tail,            \* the channel's tail position: frames stored so far
    subState,        \* per session: "none", "live" (frame_task running), "ended"
    next,            \* per session: its receiver's next position to read
    lastGot,         \* per session: number of the last frame sent to its client
    inOrder,         \* per session: every frame sent so far followed the one before
    prompt,          \* per session: it never had more than Capacity frames unread
    flow             \* what the last new_sample callback returned to the pipeline

chanVars == <<tail, subState, next, lastGot, inOrder, prompt, flow>>

(* A capture unit building its pipeline description                       *)
(* (crates/server/src/capture/x11_capture.rs).                             *)
VARIABLES
    monitor,         \* build_pipeline's monitor: the MonitorInfo captured
    config,          \* build_pipeline's config: the CaptureConfig
    registry,        \* the GStreamer plugins installed (what the probes find)
    overflow_checks, \* whether the build traps integer overflow (its profile)
    pipeline         \* what build_pipeline produced: a description or a panic

pipeVars == <<monitor, config, registry, overflow_checks, pipeline>>

(* One connection served by StreamSession::handle_connection               *)
(* (crates/server/src/streaming/mod.rs), with the input handler            *)
(* (crates/server/src/input/x11_input.rs) and the Monitor Directory        *)
(* (crates/server/src/capture/monitor.rs).                                 *)
VARIABLES
    sess,            \* where handle_connection is: "none", "subscribed", "active",
                     \* "closed" (returned Ok), "failed" (returned Err)
    out,             \* the server messages sent on the connection's sink, in order
    directory,       \* what get_monitors() returns now
    task,            \* frame_task / clipboard_task: "none", "recv" (awaiting recv),
                     \* "send" (an item in hand), "ended", "aborting", "aborted"
    rx,              \* frame_rx / clipboard_rx: items readable, and whether the
                     \* oldest unread one was overwritten
    endCause,        \* why each task's loop ended
    handled,         \* inbound messages taken from the stream so far
    lastIn,          \* the last inbound message and what handling it came to
    hostCalls,       \* the events passed to rdev's simulate, in order
    sendFailed       \* the paths on which a send on the sink has failed

sessVars == <<sess, out, directory, task, rx, endCause, handled, lastIn, hostCalls,
              sendFailed>>

(* The Monitor Directory (crates/server/src/capture/monitor.rs).           *)
VARIABLES
    xserver,         \* what the X server reports: the screen and its outputs
    listed           \* what the last get_monitors() call returned

dirVars == <<xserver, listed>>

(* The /stream route and its guard (crates/server/src/web/routes/streaming.rs, *)
(* crates/server/src/auth.rs).                                             *)
VARIABLES
    request,         \* the /stream request: its Authorization header values
    guard            \* the outcome of the UserGuard request guard

routeVars == <<request, guard>>

(* The /create_user route (crates/server/src/web/routes/user.rs).         *)
VARIABLES
    users,           \* the rows of the users table, in insertion order
    creq             \* per create_user request: where its handler is

userVars == <<users, creq>>

(* CaptureManager::start and the capture units                             *)
(* (crates/server/src/capture/mod.rs, x11_capture.rs).                     *)
VARIABLES
    capMonitors,     \* config.monitors of the manager's CaptureConfig
    capDirectory,    \* start_capture's `monitors`: the index field of each entry
                     \* get_monitors() returns to it, in order
    capUnits,        \* the capture tasks spawned so far, in spawn order
    started,         \* what the last start() call returned ("no": none yet)
    stopped          \* how many units were spawned when stop() was last called
                     \* and returned; -1: stop() was not called

capVars == <<capMonitors, capDirectory, capUnits, started, stopped>>

(* The two mutexes of the clipboard manager and the threads that take them  *)
(* (crates/server/src/clipboard/mod.rs), step by step.                     *)
VARIABLES
    mutex,           \* who holds ClipboardManager.clipboard and .last_content
    lockPc           \* where each thread is in set_content, get_content or the
                     \* poll loop

lockVars == <<mutex, lockPc>>

vars == <<coordVars, clipVars, chanVars, pipeVars, sessVars, dirVars, routeVars,
          userVars, capVars, lockVars>>

\* A step of one component leaves the other components alone.
CoordOnly == UNCHANGED <<clipVars, chanVars, pipeVars, sessVars, dirVars, routeVars,
                         userVars, capVars, lockVars>>
ClipOnly == UNCHANGED <<coordVars, chanVars, pipeVars, sessVars, dirVars, routeVars,
                        userVars, capVars, lockVars>>
ChanOnly == UNCHANGED <<coordVars, clipVars, pipeVars, sessVars, dirVars, routeVars,
                        userVars, capVars, lockVars>>
PipeOnly == UNCHANGED <<coordVars, clipVars, chanVars, sessVars, dirVars, routeVars,
                        userVars, capVars, lockVars>>
SessOnly == UNCHANGED <<coordVars, clipVars, chanVars, pipeVars, dirVars, routeVars,
                        userVars, capVars, lockVars>>
DirOnly == UNCHANGED <<coordVars, clipVars, chanVars, pipeVars, sessVars, routeVars,
                       userVars, capVars, lockVars>>
RouteOnly == UNCHANGED <<coordVars, clipVars, chanVars, pipeVars, sessVars, dirVars,
                         userVars, capVars, lockVars>>
UserOnly == UNCHANGED <<coordVars, clipVars, chanVars, pipeVars, sessVars, dirVars,
                        routeVars, capVars, lockVars>>
LockOnly == UNCHANGED <<coordVars, clipVars, chanVars, pipeVars, sessVars, dirVars,
                        routeVars, userVars, capVars>>
CapOnly == UNCHANGED <<coordVars, clipVars, chanVars, pipeVars, sessVars, dirVars,
                       routeVars, userVars, lockVars>>

(***************************************************************************)
(* ShutdownSignal: a handle to a shared AtomicBool.                        *)
(***************************************************************************)
\* ShutdownSignal::new: a fresh cell holding false; the handle is its index.
SignalNew(cs) == [cells |-> Append(cs, FALSE), handle |-> Len(cs) + 1]

\* #[derive(Clone)]: Arc::clone, the same cell.
SignalClone(cs, h) == [cells |-> cs, handle |-> h]

\* A store that flips the flag instead of setting it.
SignalToggle(cs, h) == [cs EXCEPT ![h] = ~cs[h]]

\* ShutdownSignal::shutdown: store(true).
SignalShutdown(cs, h) == [cs EXCEPT ![h] = TRUE]

\* ShutdownSignal::is_shutdown: load.
is_shutdown(cs, h) == cs[h]

(***************************************************************************)
(* ShutdownCoordinator                                                     *)
(***************************************************************************)
Finished(t) == t.run # "running"

\* ManagedThread::new as called by register_thread: the registry entry.
ManagedThread(name, sig, fnsig, ret) ==
    [name |-> name, shutdown_signal |-> sig, signal_clone |-> fnsig,
     returned |-> ret, run |-> "running"]

UserUnits == {i \in 1..Len(threads) : threads[i].name = "unit"}

\* A thread_count that counts the units registered by the application only.
thread_count_units == Cardinality({i \in 1..Len(threads) : threads[i].name = "unit"})

\* ShutdownCoordinator::thread_count
thread_count == Len(threads)

Alive == ~exited

\* The coordinator value is still owned by the caller (not yet consumed).
Owned == Alive /\ waitPc = "open"

\* The three handles register_thread makes: the new signal, the clone moved into
\* the thread, and the clone stored in the registry; the new signal is returned.
RegisterHandles(cs) ==
    LET s0 == SignalNew(cs)
        s1 == SignalClone(s0.cells, s0.handle)
        s2 == SignalClone(s1.cells, s0.handle)
    IN [cells |-> s2.cells, returned |-> s0.handle,
        signal_clone |-> s1.handle, shutdown_signal |-> s2.handle]

Register(name) ==
    LET r == RegisterHandles(cells)
    IN /\ cells' = r.cells
       /\ threads' = Append(threads,
              ManagedThread(name, r.shutdown_signal, r.signal_clone, r.returned))

register_thread ==
    /\ Owned
    /\ Cardinality(UserUnits) < MaxUnits
    /\ Register("unit")
    /\ UNCHANGED <<main_signal, timeout, clones, thread_signals, mon_main, monPc,
                   monI, timeout_signal, tmoPc, elapsed, exited, waitPc, joinI,
                   failed_threads, mainSetter>>
    /\ CoordOnly

register_async_thread ==
    /\ Owned
    /\ Cardinality(UserUnits) < MaxUnits
    /\ Register("unit")
    /\ UNCHANGED <<main_signal, timeout, clones, thread_signals, mon_main, monPc,
                   monI, timeout_signal, tmoPc, elapsed, exited, waitPc, joinI,
                   failed_threads, mainSetter>>
    /\ CoordOnly

\* ShutdownCoordinator::signal: a clone of the main signal for the caller.
signal ==
    /\ Owned
    /\ Cardinality(clones) < MaxClones
    /\ LET c == SignalClone(cells, main_signal)
       IN /\ cells' = c.cells
          /\ clones' = clones \cup {c.handle}
    /\ UNCHANGED <<main_signal, threads, timeout, thread_signals, mon_main, monPc,
                   monI, timeout_signal, tmoPc, elapsed, exited, waitPc, joinI,
                   failed_threads, mainSetter>>
    /\ CoordOnly

FirstSetter(who) ==
    IF mainSetter = "none" /\ ~is_shutdown(cells, main_signal) THEN who ELSE mainSetter

\* A shutdown() that sets the signal of every registered thread as well.
shutdown_all ==
    /\ Owned
    /\ cells' = [h \in DOMAIN cells |->
                    \/ cells[h]
                    \/ h = main_signal
                    \/ \E i \in 1..Len(threads) : threads[i].shutdown_signal = h]
    /\ mainSetter' = FirstSetter("app")
    /\ UNCHANGED <<main_signal, threads, timeout, clones, thread_signals, mon_main,
                   monPc, monI, timeout_signal, tmoPc, elapsed, exited, waitPc,
                   joinI, failed_threads>>
    /\ CoordOnly

\* ShutdownCoordinator::shutdown: sets the main signal, nothing else.
shutdown ==
    /\ Owned
    /\ cells' = SignalShutdown(cells, main_signal)
    /\ mainSetter' = FirstSetter("app")
    /\ UNCHANGED <<main_signal, threads, timeout, clones, thread_signals, mon_main,
                   monPc, monI, timeout_signal, tmoPc, elapsed, exited, waitPc,
                   joinI, failed_threads>>
    /\ CoordOnly

\* The application calls shutdown() on a clone obtained from signal().
CloneShutdown(h) ==
    /\ Alive
    /\ h \in clones
    /\ cells' = SignalShutdown(cells, h)
    /\ mainSetter' = FirstSetter("app")
    /\ UNCHANGED <<main_signal, threads, timeout, clones, thread_signals, mon_main,
                   monPc, monI, timeout_signal, tmoPc, elapsed, exited, waitPc,
                   joinI, failed_threads>>
    /\ CoordOnly


(***************************************************************************)
(* The registered units of work.  thread_fn is the caller's closure: it    *)
(* may set its own signal, return, panic, or return on seeing its signal.  *)
(***************************************************************************)
SetRun(i, r) == [threads EXCEPT ![i].run = r]

\* The unit calls shutdown() on the signal it was given (as the web-server unit
\* does when its server ends, crates/server/src/web/mod.rs).
UnitShutdownSelf(i) ==
    /\ Alive
    /\ i \in UserUnits
    /\ threads[i].run = "running"
    /\ ~is_shutdown(cells, threads[i].signal_clone)
    /\ cells' = SignalShutdown(cells, threads[i].signal_clone)
    /\ UNCHANGED <<main_signal, threads, timeout, clones, thread_signals, mon_main,
                   monPc, monI, timeout_signal, tmoPc, elapsed, exited, waitPc,
                   joinI, failed_threads, mainSetter>>
    /\ CoordOnly

\* thread_fn returns although its signal is not set.
UnitReturn(i) ==
    /\ Alive
    /\ i \in UserUnits
    /\ threads[i].run = "running"
    /\ ~is_shutdown(cells, threads[i].signal_clone)
    /\ threads' = SetRun(i, "returned")
    /\ UNCHANGED <<cells, main_signal, timeout, clones, thread_signals, mon_main,
                   monPc, monI, timeout_signal, tmoPc, elapsed, exited, waitPc,
                   joinI, failed_threads, mainSetter>>
    /\ CoordOnly

\* thread_fn polls is_shutdown() on its signal, sees it set, and returns.
UnitObserve(i) ==
    /\ Alive
    /\ i \in UserUnits
    /\ threads[i].run = "running"
    /\ is_shutdown(cells, threads[i].signal_clone)
    /\ threads' = SetRun(i, "returned")
    /\ UNCHANGED <<cells, main_signal, timeout, clones, thread_signals, mon_main,
                   monPc, monI, timeout_signal, tmoPc, elapsed, exited, waitPc,
                   joinI, failed_threads, mainSetter>>
    /\ CoordOnly

\* thread_fn panics (for an async unit also: the runtime could not be created).
UnitPanic(i) ==
    /\ Alive
    /\ i \in UserUnits
    /\ threads[i].run = "running"
    /\ threads' = SetRun(i, "panicked")
    /\ UNCHANGED <<cells, main_signal, timeout, clones, thread_signals, mon_main,
                   monPc, monI, timeout_signal, tmoPc, elapsed, exited, waitPc,
                   joinI, failed_threads, mainSetter>>
    /\ CoordOnly

(***************************************************************************)
(* start_monitor: snapshot the registry's signals, register the monitor    *)
(* thread and the timeout thread.                                          *)
(***************************************************************************)
\* thread_signals: a clone of the signal of every thread registered so far.
RECURSIVE CloneAll(_, _, _)
CloneAll(cs, ts, k) ==
    IF k > Len(ts) THEN [cells |-> cs, handles |-> <<>>]
    ELSE LET c == SignalClone(cs, ts[k].shutdown_signal)
             rest == CloneAll(c.cells, ts, k + 1)
         IN [cells |-> rest.cells, handles |-> <<c.handle>> \o rest.handles]

MonitorStarted == monPc # "none"

start_monitor ==
    /\ Owned
    /\ ~MonitorStarted
    /\ LET m  == SignalClone(cells, main_signal)
           ts == CloneAll(m.cells, threads, 1)
           r1 == RegisterHandles(ts.cells)
           t  == SignalClone(r1.cells, main_signal)
           r2 == RegisterHandles(t.cells)
       IN /\ mon_main' = m.handle
          /\ thread_signals' = ts.handles
          /\ timeout_signal' = t.handle
          /\ cells' = r2.cells
          /\ threads' = threads \o
                <<ManagedThread("monitor", r1.shutdown_signal, r1.signal_clone, r1.returned),
                  ManagedThread("timeout", r2.shutdown_signal, r2.signal_clone, r2.returned)>>
    /\ monPc' = "check_main"
    /\ monI' = 1
    /\ tmoPc' = "waiting"
    /\ UNCHANGED <<main_signal, timeout, clones, elapsed, exited, waitPc, joinI,
                   failed_threads, mainSetter>>
    /\ CoordOnly

MonitorIndex == CHOOSE i \in 1..Len(threads) : threads[i].name = "monitor"

\* A monitor that never takes a set signal for a completed thread.
MonitorSeesCompletedNever(h) == FALSE

\* A monitor that looks at the signal of every thread of the registry.
MonitorSeesRegistry(h) ==
    /\ \E i \in 1..Len(threads) : is_shutdown(cells, threads[i].shutdown_signal)
    /\ ~is_shutdown(cells, mon_main)

\* `signal.is_shutdown() && !main_signal.is_shutdown()`
MonitorSeesCompleted(h) == is_shutdown(cells, h) /\ ~is_shutdown(cells, mon_main)

\* One loop iteration up to the sleep.  `if main_signal.is_shutdown()`: go on to
\* signal every thread.  Otherwise `for (name, signal) in &thread_signals`: on a
\* set signal while the main signal is unset, set the main signal and break;
\* then `if monitor_signal.is_shutdown() { break; }`, else sleep(50 ms).
MonitorPoll ==
    /\ Alive
    /\ monPc = "check_main"
    /\ IF is_shutdown(cells, mon_main)
       THEN /\ monPc' = "propagate"
            /\ monI' = 1
            /\ UNCHANGED <<cells, threads, mainSetter>>
       ELSE /\ IF \E k \in 1..Len(thread_signals) : MonitorSeesCompleted(thread_signals[k])
               THEN /\ cells' = SignalShutdown(cells, mon_main)
                    /\ mainSetter' = FirstSetter("monitor")
               ELSE UNCHANGED <<cells, mainSetter>>
            /\ IF is_shutdown(cells, threads[MonitorIndex].signal_clone)
               THEN /\ monPc' = "done"
                    /\ threads' = SetRun(MonitorIndex, "returned")
               ELSE /\ monPc' = "sleep"
                    /\ UNCHANGED threads
            /\ UNCHANGED monI
    /\ UNCHANGED <<main_signal, timeout, clones, thread_signals, mon_main,
                   timeout_signal, tmoPc, elapsed, exited, waitPc, joinI,
                   failed_threads>>
    /\ CoordOnly

\* `for (name, signal) in &thread_signals { signal.shutdown(); } break;`
MonitorPropagate ==
    /\ Alive
    /\ monPc = "propagate"
    /\ IF monI <= Len(thread_signals)
       THEN /\ cells' = SignalShutdown(cells, thread_signals[monI])
            /\ monI' = monI + 1
            /\ UNCHANGED <<monPc, threads>>
       ELSE /\ monPc' = "done"
            /\ threads' = SetRun(MonitorIndex, "returned")
            /\ UNCHANGED <<cells, monI>>
    /\ UNCHANGED <<main_signal, timeout, clones, thread_signals, mon_main,
                   timeout_signal, tmoPc, elapsed, exited, waitPc, joinI,
                   failed_threads, mainSetter>>
    /\ CoordOnly

(***************************************************************************)
(* The timeout thread.                                                     *)
(***************************************************************************)
\* `while !timeout_signal.is_shutdown() { sleep }` ends; timeout_start = now.
TimeoutObserve ==
    /\ Alive
    /\ tmoPc = "waiting"
    /\ is_shutdown(cells, timeout_signal)
    /\ tmoPc' = "counting"
    /\ elapsed' = 0
    /\ UNCHANGED <<cells, main_signal, threads, timeout, clones, thread_signals,
                   mon_main, monPc, monI, timeout_signal, exited, waitPc, joinI,
                   failed_threads, mainSetter>>
    /\ CoordOnly

\* An expiry test that fires as soon as the grace period is reached.
ExpiredAtLimit(e, t) == e >= t

\* `if elapsed > timeout`
Expired(e, t) == e > t

\* `std::process::exit(0)`
TimeoutExit ==
    /\ Alive
    /\ tmoPc = "counting"
    /\ Expired(elapsed, timeout)
    /\ exited' = TRUE
    /\ UNCHANGED <<cells, main_signal, threads, timeout, clones, thread_signals,
                   mon_main, monPc, monI, timeout_signal, tmoPc, elapsed, waitPc,
                   joinI, failed_threads, mainSetter>>
    /\ CoordOnly

\* One polling interval (50 ms) passes: a sleeping monitor wakes up, and the
\* timeout thread's clock advances.
Tick ==
    /\ Alive
    /\ MonitorStarted
    /\ monPc' = IF monPc = "sleep" THEN "check_main" ELSE monPc
    /\ elapsed' = IF tmoPc = "counting" /\ elapsed <= timeout
                  THEN elapsed + 1 ELSE elapsed
    /\ UNCHANGED <<cells, main_signal, threads, timeout, clones, thread_signals,
                   mon_main, monI, timeout_signal, tmoPc, exited, waitPc, joinI,
                   failed_threads, mainSetter>>
    /\ CoordOnly

\* The same, when the monitor does one loop iteration within its interval.
TimelyTick ==
    /\ monPc \in {"sleep", "done"}
    /\ Tick

(***************************************************************************)
(* wait_for_completion(self)                                               *)
(***************************************************************************)
wait_for_completion ==
    /\ Owned
    /\ waitPc' = "joining"
    /\ joinI' = 1
    /\ failed_threads' = <<>>
    /\ UNCHANGED <<cells, main_signal, threads, timeout, clones, thread_signals,
                   mon_main, monPc, monI, timeout_signal, tmoPc, elapsed, exited,
                   mainSetter>>
    /\ CoordOnly

\* A join that propagates the joined thread's panic to the caller.
JoinOutcomeRaise(t, failed) ==
    IF t.run = "panicked" THEN [pc |-> "panicked", failed |-> failed]
    ELSE [pc |-> "joining", failed |-> failed]

\* `match thread.join() { Ok(_) => .., Err(_) => failed_threads.push(name) }`
JoinOutcome(t, failed) ==
    IF t.run = "panicked" THEN [pc |-> "joining", failed |-> Append(failed, joinI)]
    ELSE [pc |-> "joining", failed |-> failed]

\* thread.join() returns once the thread has finished.
Join ==
    /\ Alive
    /\ waitPc = "joining"
    /\ joinI <= Len(threads)
    /\ Finished(threads[joinI])
    /\ LET o == JoinOutcome(threads[joinI], failed_threads)
       IN /\ waitPc' = o.pc
          /\ failed_threads' = o.failed
    /\ joinI' = joinI + 1
    /\ UNCHANGED <<cells, main_signal, threads, timeout, clones, thread_signals,
                   mon_main, monPc, monI, timeout_signal, tmoPc, elapsed, exited,
                   mainSetter>>
    /\ CoordOnly

\* The loop is over: log the outcome and return to the caller.
WaitReturn ==
    /\ Alive
    /\ waitPc = "joining"
    /\ joinI > Len(threads)
    /\ waitPc' = "returned"
    /\ UNCHANGED <<cells, main_signal, threads, timeout, clones, thread_signals,
                   mon_main, monPc, monI, timeout_signal, tmoPc, elapsed, exited,
                   joinI, failed_threads, mainSetter>>
    /\ CoordOnly

(***************************************************************************)
(* The coordinator's specification.                                        *)
(***************************************************************************)
\* ShutdownCoordinator::with_timeout(timeout)
CoordInit ==
    /\ cells = SignalNew(<<>>).cells
    /\ main_signal = SignalNew(<<>>).handle
    /\ threads = <<>>
    /\ timeout = GraceTicks
    /\ clones = {}
    /\ thread_signals = <<>>
    /\ mon_main = main_signal
    /\ monPc = "none"
    /\ monI = 1
    /\ timeout_signal = main_signal
    /\ tmoPc = "none"
    /\ elapsed = 0
    /\ exited = FALSE
    /\ waitPc = "open"
    /\ joinI = 1
    /\ failed_threads = <<>>
    /\ mainSetter = "none"

UnitStep ==
    \E i \in 1..(MaxUnits + 2) :
        \/ UnitShutdownSelf(i)
        \/ UnitReturn(i)
        \/ UnitObserve(i)
        \/ UnitPanic(i)

AppStep ==
    \/ register_thread
    \/ register_async_thread
    \/ signal
    \/ shutdown
    \/ \E h \in clones : CloneShutdown(h)
    \/ start_monitor
    \/ wait_for_completion
    \/ Join
    \/ WaitReturn

MonitorStep ==
    \/ MonitorPoll
    \/ MonitorPropagate

TimeoutStep ==
    \/ TimeoutObserve
    \/ TimeoutExit

CoordNext ==
    \/ AppStep
    \/ UnitStep
    \/ MonitorStep
    \/ TimeoutStep
    \/ Tick

\* The same system when the monitor thread is scheduled within its polling
\* interval and every thread that can step eventually does.
CoordNextTimely ==
    \/ AppStep
    \/ UnitStep
    \/ MonitorStep
    \/ TimeoutStep
    \/ TimelyTick

(***************************************************************************)
(* Properties of the shutdown coordinator.                                 *)
(***************************************************************************)
MainSet == is_shutdown(cells, main_signal)

\* The units registered before start_monitor(): the first entries of the registry.
EarlyUnits == {i \in UserUnits : MonitorStarted /\ i <= Len(thread_signals)}

\* What unit i reads from the signal it was given.
UnitSignalSet(i) == is_shutdown(cells, threads[i].signal_clone)

\* C1: propagation. Once the monitor runs and a unit registered before
\* start_monitor() has set its own signal, eventually the main signal is set and
\* the signal of every unit registered before start_monitor() is set.
C1_Propagation ==
    (MonitorStarted /\ \E i \in EarlyUnits : UnitSignalSet(i))
        ~> (MainSet /\ \A i \in EarlyUnits : UnitSignalSet(i))

\* The monitor set the main signal for a unit that set its own, and has then
\* signalled both units registered before it started, one of them still running.
C1_Witness ==
    /\ mainSetter = "monitor"
    /\ monPc = "done"
    /\ Cardinality(EarlyUnits) >= 2
    /\ \A i \in EarlyUnits : UnitSignalSet(i)
    /\ \E i \in EarlyUnits : threads[i].run = "running"

\* C2 as stated: once the main signal is set and the monitor runs, the monitor
\* eventually has set the signal of every registered unit and has stopped.
C2_EveryRegisteredUnit ==
    (MonitorStarted /\ MainSet)
        ~> (monPc = "done" /\ \A i \in UserUnits : UnitSignalSet(i))

\* C2 for the units the monitor knows: those registered before start_monitor().
C2_EarlyUnits ==
    (MonitorStarted /\ MainSet)
        ~> (monPc = "done" /\ \A i \in EarlyUnits : UnitSignalSet(i))

\* C3 as stated: with the monitor running, a registered unit whose work has
\* finished (returned or panicked) leads to the main signal being set.
C3_FinishTriggersShutdown ==
    (MonitorStarted /\ \E i \in EarlyUnits : Finished(threads[i])) ~> MainSet

\* The threads among the first n of the registry that panicked, in order.
RECURSIVE PanickedUpTo(_)
PanickedUpTo(n) ==
    IF n = 0 THEN <<>>
    ELSE IF threads[n].run = "panicked" THEN Append(PanickedUpTo(n - 1), n)
    ELSE PanickedUpTo(n - 1)

\* What wait_for_completion has done so far: the threads before joinI have
\* finished and failed_threads holds exactly the panicked ones among them; the
\* panic of a joined thread never escapes into the caller; and the call has
\* returned only when every registered thread was joined.
WaitCollects ==
    /\ waitPc \in {"open", "joining", "returned"}
    /\ waitPc # "open" =>
          /\ joinI <= Len(threads) + 1
          /\ \A i \in 1..(joinI - 1) : Finished(threads[i])
          /\ failed_threads = PanickedUpTo(joinI - 1)
    /\ waitPc = "returned" => joinI = Len(threads) + 1

AllFinished == \A i \in 1..Len(threads) : Finished(threads[i])

\* C4: wait_for_completion joins the registered threads in order, recording the
\* panicked ones without re-raising and going on to the next; and once all of
\* them have finished it returns.
C4_WaitCollectsFailures ==
    /\ []WaitCollects
    /\ (waitPc = "joining" /\ AllFinished) ~> (waitPc = "returned")

\* wait_for_completion returned although the first of two units panicked.
C4_Witness ==
    /\ waitPc = "returned"
    /\ Len(threads) >= 2
    /\ threads[1].run = "panicked"
    /\ threads[2].run = "returned"
    /\ failed_threads = <<1>>

\* C5 as stated: with the monitor started, the main signal set and every unit
\* known to the monitor (each of which stops once it sees its signal), a caller
\* inside wait_for_completion eventually returns from it.
C5_WaitReturns ==
    (MonitorStarted /\ MainSet /\ waitPc = "joining" /\ UserUnits = EarlyUnits)
        ~> (waitPc = "returned")

\* C6: the process is forced to exit only when the main signal is set and the
\* timeout thread, having seen it, has counted more than the grace period; in
\* particular never while the main signal is unset.
C6_ForcedExitOnlyAfterGrace ==
    exited => (MainSet /\ tmoPc = "counting" /\ elapsed > timeout)

\* The process was forced to exit.
C6_Witness == exited /\ MainSet /\ elapsed > timeout

\* Every handle that is a clone of the same signal.
CloneGroups ==
    {{main_signal, mon_main, timeout_signal} \cup clones}
    \cup {{threads[i].shutdown_signal, threads[i].signal_clone, threads[i].returned}
              \cup (IF MonitorStarted /\ i <= Len(thread_signals)
                    THEN {thread_signals[i]} ELSE {})
          : i \in 1..Len(threads)}

ClonesAgree(cs) ==
    \A g \in CloneGroups : \A a, b \in g : is_shutdown(cs, a) = is_shutdown(cs, b)

\* C7: a new signal is unset; a set signal never reverts, whatever is called
\* again; and all clones of a signal read the same value in every state.
C7_SignalMonotonicShared ==
    [][ /\ \A c \in 1..Len(cells) : cells[c] => cells'[c]
        /\ \A c \in (Len(cells) + 1)..Len(cells') : ~cells'[c]
        /\ ClonesAgree(cells)
        /\ ClonesAgree(cells)' ]_vars

\* The main signal was set through a clone handed out by signal(), and a unit
\* has set its own signal: every clone reads true.
C7_Witness ==
    /\ clones # {}
    /\ mainSetter = "app"
    /\ \A h \in clones : is_shutdown(cells, h)
    /\ MainSet
    /\ MonitorStarted
    /\ is_shutdown(cells, mon_main)
    /\ \E i \in UserUnits : UnitSignalSet(i) /\ is_shutdown(cells, threads[i].returned)

\* C25: thread_count() is the size of the registry: 0 for a new coordinator,
\* one more after each register_thread / register_async_thread, two more (the
\* monitor and the timeout thread) after start_monitor(), and never less than
\* before while the coordinator exists.
C25_ThreadCountIsRegistrySize ==
    /\ thread_count = 0
    /\ [](/\ thread_count = Len(threads)
          /\ thread_count = Cardinality(UserUnits) + (IF MonitorStarted THEN 2 ELSE 0))
    /\ [][/\ thread_count' >= thread_count
          /\ Cardinality(UserUnits') = Cardinality(UserUnits) + 1
                => (/\ thread_count' = thread_count + 1
                    /\ threads' = Append(threads, threads'[Len(threads')]))
          /\ (~MonitorStarted /\ MonitorStarted')
                => (/\ thread_count' = thread_count + 2
                    /\ SubSeq(threads', 1, Len(threads)) = threads
                    /\ threads'[thread_count + 1].name = "monitor"
                    /\ threads'[thread_count + 2].name = "timeout")
          /\ thread_count' # thread_count
                => (\/ Cardinality(UserUnits') = Cardinality(UserUnits) + 1
                    \/ ~MonitorStarted /\ MonitorStarted')]_vars

\* Two units were registered and the monitor started: four threads.
C25_Witness ==
    /\ Owned
    /\ MonitorStarted
    /\ Cardinality(UserUnits) = 2
    /\ thread_count = 4

\* The registry entries made by start_monitor() or after it: the monitor and
\* timeout threads and the units registered later.
LateThreads == {i \in 1..Len(threads) : MonitorStarted /\ i > Len(thread_signals)}

C37_UnitSignalsFollowMain ==
    /\ []((monPc = "propagate" \/ monI > 1) => MainSet)
    /\ [][/\ \A i \in 1..Len(threads) :
                (~is_shutdown(cells, threads[i].shutdown_signal)
                    /\ is_shutdown(cells', threads[i].shutdown_signal))
                   => \/ MainSet
                      \/ /\ threads[i].run = "running"
                         /\ cells' = SignalShutdown(cells, threads[i].signal_clone)
                         /\ UNCHANGED <<monPc, monI, mainSetter>>
          /\ (mainSetter = "none" /\ mainSetter' = "app")
                => /\ cells' = SignalShutdown(cells, main_signal)
                   /\ UNCHANGED <<main_signal, threads, timeout, clones, thread_signals,
                                  mon_main, monPc, monI, timeout_signal, tmoPc, elapsed,
                                  exited, waitPc, joinI, failed_threads>>]_vars

\* The application called shutdown(); the monitor has seen the main signal
\* and has signalled the first of two units, not yet the second.
C37_Witness ==
    /\ mainSetter = "app"
    /\ MainSet
    /\ monPc = "propagate"
    /\ monI = 2
    /\ Len(thread_signals) = 2
    /\ is_shutdown(cells, thread_signals[1])
    /\ ~is_shutdown(cells, thread_signals[2])

(***************************************************************************)
(* ClipboardManager                                                        *)
(***************************************************************************)
Texts == {"", "x", "y"}

\* A manager that starts with the host clipboard's text as last_content.
ClipInitSeeded ==
    /\ host \in Texts
    /\ last_content = host
    /\ cbHolder = "free"
    /\ setArg = ""
    /\ setResult = "none"
    /\ pollPc = "off"
    /\ pollContent = ""
    /\ clip_sent = <<>>
    /\ nSets = 0
    /\ nCopies = 0
    /\ afterSet = <<>>

\* ClipboardManager::new: last_content is String::new(); the host clipboard
\* holds whatever it held.
ClipInit ==
    /\ host \in Texts
    /\ last_content = ""
    /\ cbHolder = "free"
    /\ setArg = ""
    /\ setResult = "none"
    /\ pollPc = "off"
    /\ pollContent = ""
    /\ clip_sent = <<>>
    /\ nSets = 0
    /\ nCopies = 0
    /\ afterSet = <<>>

\* set_content, first half: lock the clipboard and set_text(content); on an
\* error return it (the lock is released), else go on holding the lock.
SetContentWrite(t, ok) ==
    /\ cbHolder = "free"
    /\ nSets < MaxSets
    /\ nSets' = nSets + 1
    /\ IF ok
       THEN /\ host' = t
            /\ cbHolder' = "set_content"
            /\ setArg' = t
            /\ setResult' = "pending"
            /\ afterSet' = <<>>
       ELSE /\ setResult' = "err"
            /\ UNCHANGED <<host, cbHolder, setArg, afterSet>>
    /\ UNCHANGED <<last_content, pollPc, pollContent, clip_sent, nCopies>>
    /\ ClipOnly

\* set_content, second half: `*self.last_content.lock().unwrap() = content`,
\* then return Ok, releasing the clipboard lock.
SetContentRecord ==
    /\ cbHolder = "set_content"
    /\ last_content' = setArg
    /\ cbHolder' = "free"
    /\ setResult' = "ok"
    /\ afterSet' = <<setArg, 0>>
    /\ UNCHANGED <<host, setArg, pollPc, pollContent, clip_sent, nSets, nCopies>>
    /\ ClipOnly

\* Another application puts a different text on the host clipboard.
ExternalCopy(t) ==
    /\ nCopies < MaxCopies
    /\ t # host
    /\ host' = t
    /\ nCopies' = nCopies + 1
    /\ afterSet' = <<>>
    /\ UNCHANGED <<last_content, cbHolder, setArg, setResult, pollPc, pollContent,
                   clip_sent, nSets>>
    /\ ClipOnly

\* start_monitoring: spawn the polling task.
start_monitoring ==
    /\ pollPc = "off"
    /\ pollPc' = "sleep"
    /\ UNCHANGED <<host, last_content, cbHolder, setArg, setResult, pollContent,
                   clip_sent, nSets, nCopies, afterSet>>
    /\ ClipOnly

\* A poller whose task is over when get_text() fails.
PollReadStops(ok) ==
    /\ pollPc \in {"sleep", "retry"}
    /\ cbHolder = "free"
    /\ IF ok
       THEN /\ pollContent' = host
            /\ pollPc' = "compare"
            /\ afterSet' = IF afterSet = <<>> THEN <<>>
                           ELSE <<afterSet[1], IF afterSet[2] = 0 THEN 1 ELSE 2>>
       ELSE /\ pollPc' = "off"
            /\ UNCHANGED <<pollContent, afterSet>>
    /\ UNCHANGED <<host, last_content, cbHolder, setArg, setResult, clip_sent,
                   nSets, nCopies>>
    /\ ClipOnly

\* The sleep is over: `let content = { lock the clipboard; get_text() }`; on an
\* error `continue`: back to the sleep at the top of the loop ("retry": the
\* sleep of a cycle that follows a failed read).
PollRead(ok) ==
    /\ pollPc \in {"sleep", "retry"}
    /\ cbHolder = "free"
    /\ IF ok
       THEN /\ pollContent' = host
            /\ pollPc' = "compare"
            /\ afterSet' = IF afterSet = <<>> THEN <<>>
                           ELSE <<afterSet[1], IF afterSet[2] = 0 THEN 1 ELSE 2>>
       ELSE /\ pollPc' = "retry"
            /\ UNCHANGED <<pollContent, afterSet>>
    /\ UNCHANGED <<host, last_content, cbHolder, setArg, setResult, clip_sent,
                   nSets, nCopies>>
    /\ ClipOnly

\* A poll that publishes whatever it read.
PollOutcomeAlways(content, last, sent) ==
    [last |-> content, sent |-> Append(sent, content)]

\* `if content != *last { *last = content.clone(); sender.send(..) }`
PollOutcome(content, last, sent) ==
    IF content # last
    THEN [last |-> content, sent |-> Append(sent, content)]
    ELSE [last |-> last, sent |-> sent]

\* The rest of the loop body, under the last_content lock; then sleep.
PollCompare ==
    /\ pollPc = "compare"
    /\ LET o == PollOutcome(pollContent, last_content, clip_sent)
       IN /\ last_content' = o.last
          /\ clip_sent' = o.sent
    /\ pollPc' = "sleep"
    /\ UNCHANGED <<host, cbHolder, setArg, setResult, pollContent, nSets, nCopies,
                   afterSet>>
    /\ ClipOnly

ClipNext ==
    \/ \E t \in Texts : \E ok \in BOOLEAN : SetContentWrite(t, ok)
    \/ SetContentRecord
    \/ \E t \in Texts : ExternalCopy(t)
    \/ start_monitoring
    \/ \E ok \in BOOLEAN : PollRead(ok)
    \/ PollCompare

\* C8 as stated: the first poll cycle that reads the clipboard after
\* set_content(X) has returned Ok, with no change of the host clipboard since,
\* publishes no ClipboardContent with text X.
C8_EchoSuppressed ==
    [][ (pollPc = "compare" /\ afterSet # <<>> /\ afterSet[2] = 1
            /\ Len(clip_sent') > Len(clip_sent))
        => clip_sent'[Len(clip_sent')] # afterSet[1] ]_vars

\* C26: the poll cycle's read and its compare-and-update are one critical
\* section with respect to set_content, so that, while no other application
\* changes the host clipboard, from the moment a set_content(X) has written the
\* clipboard the poller publishes nothing: not X, and no text it read before.
C26_PollAtomicWithSetContent ==
    [][ (nCopies = 0 /\ (afterSet # <<>> \/ cbHolder = "set_content"))
        => clip_sent' = clip_sent ]_vars

\* C35: a poll cycle whose read of the clipboard fails publishes nothing and
\* leaves last_content (and all else but the poller's position) unchanged; the
\* poller is not over: once started it is always in its loop, and the cycle
\* after a failed read reads the host clipboard whenever the clipboard lock is
\* free, as any cycle does.
C35_ReadFailureIsSkipped ==
    /\ [][/\ (pollPc = "sleep" /\ pollPc' = "retry")
              => UNCHANGED <<host, last_content, cbHolder, setArg, setResult,
                             pollContent, clip_sent, nSets, nCopies, afterSet>>
          /\ pollPc # "off" => pollPc' # "off"
          /\ (pollPc = "retry" /\ pollPc' = "compare") => pollContent' = host]_vars
    /\ []((pollPc = "retry" /\ cbHolder = "free") => ENABLED PollRead(TRUE))

\* A read has failed while a text another application copied was waiting to
\* be published; an earlier cycle has published another text.
C35_Witness ==
    /\ pollPc = "retry"
    /\ nCopies = 1
    /\ Len(clip_sent) = 1
    /\ last_content = clip_sent[1]
    /\ host # last_content

\* C40: last_content starts empty and is stored only by a publishing poll
\* cycle or by set_content; so a poll cycle that compares while nothing was
\* published yet (the first successful cycle after start_monitoring is one)
\* publishes the text it read whenever that text is not empty, even if nothing
\* has changed the clipboard, unless it is the text set_content recorded; it
\* publishes nothing only when the text is empty or equal to the last_content
\* a set_content call has recorded.
C40_FirstPollPublishesHostText ==
    [][/\ last_content' # last_content
            => \/ Len(clip_sent') = Len(clip_sent) + 1
               \/ cbHolder = "set_content" /\ last_content' = setArg
       /\ (pollPc = "compare" /\ pollPc' = "sleep" /\ clip_sent = <<>>)
            => /\ (pollContent # "" /\ ~(nSets > 0 /\ pollContent = last_content))
                     => clip_sent' = <<pollContent>>
               /\ clip_sent' = <<>>
                     => \/ pollContent = ""
                        \/ nSets > 0 /\ pollContent = last_content]_vars

\* The text the host clipboard held when the manager was made has been
\* published by a poll cycle, although nothing has set or changed it.
C40_Witness ==
    /\ nSets = 0
    /\ nCopies = 0
    /\ host # ""
    /\ clip_sent = <<host>>
    /\ last_content = host

\* C9: a poll cycle whose text differs from last_content when it compares them
\* makes it last_content and publishes it once; a cycle whose text equals
\* last_content publishes nothing and leaves last_content alone.
C9_PollPublishesChange ==
    [][ (pollPc = "compare" /\ pollPc' = "sleep")
        => IF pollContent # last_content
           THEN /\ last_content' = pollContent
                /\ clip_sent' = Append(clip_sent, pollContent)
           ELSE /\ last_content' = last_content
                /\ clip_sent' = clip_sent ]_vars

\* A poll cycle has published the text another application copied, and a later
\* cycle has read the same text again without publishing it.
C9_Witness ==
    /\ nCopies = 1
    /\ nSets = 0
    /\ clip_sent # <<>>
    /\ clip_sent[Len(clip_sent)] = host
    /\ last_content = host
    /\ pollPc = "compare"
    /\ pollContent = last_content

(***************************************************************************)
(* The clipboard manager's two mutexes, lock by lock: set_content,         *)
(* get_content and the poll loop as the threads that run them.             *)
(***************************************************************************)
\* The sessions that call set_content, a caller of get_content, the poller.
Setters == {"session1", "session2"}

Getters == {"getter"}

LockThreads == Setters \cup Getters \cup {"poller"}

Mutexes == {"clipboard", "last_content"}

\* ClipboardManager::new: both mutexes free; the polling task is not spawned.
LockInit ==
    /\ mutex = [m \in Mutexes |-> "free"]
    /\ lockPc = [t \in LockThreads |-> IF t = "poller" THEN "off" ELSE "idle"]

\* Thread t goes from position `from` to position `to`.
Goto(t, from, to) == lockPc[t] = from /\ lockPc' = [lockPc EXCEPT ![t] = to]

\* `.lock().unwrap()` returns the guard once the mutex is free.
Lock(t, m) == mutex[m] = "free" /\ mutex' = [mutex EXCEPT ![m] = t]

\* The guard of t on m is dropped.
Unlock(t, m) == mutex[m] = t /\ mutex' = [mutex EXCEPT ![m] = "free"]

\* A session calls set_content and reaches `self.clipboard.lock()`.
set_content_call(t) ==
    /\ t \in Setters
    /\ Goto(t, "idle", "lock_clipboard")
    /\ UNCHANGED mutex
    /\ LockOnly

\* `let mut clipboard = self.clipboard.lock().unwrap();`
set_content_lock(t) ==
    /\ t \in Setters
    /\ Goto(t, "lock_clipboard", "set_text")
    /\ Lock(t, "clipboard")
    /\ LockOnly

\* `clipboard.set_text(content).map_err(..)?`: on an error the function
\* returns and the guard is dropped.
set_content_set_text(t, ok) ==
    /\ t \in Setters
    /\ IF ok
       THEN Goto(t, "set_text", "lock_last_content") /\ UNCHANGED mutex
       ELSE Goto(t, "set_text", "idle") /\ Unlock(t, "clipboard")
    /\ LockOnly

\* `*self.last_content.lock().unwrap() = ..`: the lock is taken with the
\* clipboard guard alive.
set_content_lock_last(t) ==
    /\ t \in Setters
    /\ Goto(t, "lock_last_content", "store")
    /\ Lock(t, "last_content")
    /\ LockOnly

\* The store; the temporary guard is dropped at the end of the statement.
set_content_store(t) ==
    /\ t \in Setters
    /\ Goto(t, "store", "return")
    /\ Unlock(t, "last_content")
    /\ LockOnly

\* `Ok(())`: the clipboard guard is dropped.
set_content_return(t) ==
    /\ t \in Setters
    /\ Goto(t, "return", "idle")
    /\ Unlock(t, "clipboard")
    /\ LockOnly

\* get_content is called and reaches `self.clipboard.lock()`.
get_content_call(t) ==
    /\ t \in Getters
    /\ Goto(t, "idle", "lock_clipboard")
    /\ UNCHANGED mutex
    /\ LockOnly

\* `let mut clipboard = self.clipboard.lock().unwrap();`
get_content_lock(t) ==
    /\ t \in Getters
    /\ Goto(t, "lock_clipboard", "get_text")
    /\ Lock(t, "clipboard")
    /\ LockOnly

\* `clipboard.get_text().map_err(..)`: Ok or Err, the guard is dropped.
get_content_get_text(t, ok) ==
    /\ t \in Getters
    /\ Goto(t, "get_text", "idle")
    /\ Unlock(t, "clipboard")
    /\ LockOnly

\* start_monitoring: tokio::spawn of the poll loop, which sleeps first.
poll_spawn ==
    /\ Goto("poller", "off", "sleep")
    /\ UNCHANGED mutex
    /\ LockOnly

\* The sleep is over: `clipboard.lock()`.
poll_wake ==
    /\ Goto("poller", "sleep", "lock_clipboard")
    /\ UNCHANGED mutex
    /\ LockOnly

\* `let mut cb = clipboard.lock().unwrap();`
poll_lock ==
    /\ Goto("poller", "lock_clipboard", "get_text")
    /\ Lock("poller", "clipboard")
    /\ LockOnly

\* A poll loop whose clipboard guard lives on after the read.
poll_get_text_keeps(ok) ==
    /\ IF ok
       THEN Goto("poller", "get_text", "lock_last_content") /\ UNCHANGED mutex
       ELSE Goto("poller", "get_text", "sleep") /\ Unlock("poller", "clipboard")
    /\ LockOnly

\* `match cb.get_text() { Ok(text) => text, Err(_) => continue }`: the block
\* ends, or the loop continues; either way cb is dropped.
poll_get_text(ok) ==
    /\ Goto("poller", "get_text", IF ok THEN "lock_last_content" ELSE "sleep")
    /\ Unlock("poller", "clipboard")
    /\ LockOnly

\* `let mut last = last_content.lock().unwrap();`
poll_lock_last ==
    /\ Goto("poller", "lock_last_content", "compare")
    /\ Lock("poller", "last_content")
    /\ LockOnly

\* The compare, the store and the send; `last` is dropped at the end of the
\* loop body, before the next sleep.
poll_compare ==
    /\ Goto("poller", "compare", "sleep")
    /\ Unlock("poller", "last_content")
    /\ LockOnly

LockNext ==
    \/ \E t \in Setters :
          \/ set_content_call(t)
          \/ set_content_lock(t)
          \/ \E ok \in BOOLEAN : set_content_set_text(t, ok)
          \/ set_content_lock_last(t)
          \/ set_content_store(t)
          \/ set_content_return(t)
    \/ \E t \in Getters :
          \/ get_content_call(t)
          \/ get_content_lock(t)
          \/ \E ok \in BOOLEAN : get_content_get_text(t, ok)
    \/ poll_spawn
    \/ poll_wake
    \/ poll_lock
    \/ \E ok \in BOOLEAN : poll_get_text(ok)
    \/ poll_lock_last
    \/ poll_compare

\* The mutexes thread t holds, and the one it is blocked on.
Holds(t) == {m \in Mutexes : mutex[m] = t}

Wants(t) ==
    IF lockPc[t] = "lock_clipboard" THEN {"clipboard"}
    ELSE IF lockPc[t] = "lock_last_content" THEN {"last_content"}
    ELSE {}

\* Thread t is not blocked: it waits for no mutex, or for a free one.
CanStep(t) == \A m \in Wants(t) : mutex[m] = "free"

\* C38: set_content, get_content and the poll loop never deadlock: a thread
\* that holds last_content never waits for the clipboard (the two are nested
\* only clipboard first), the poller never holds both, a thread that is back
\* from its call or in its sleep holds nothing (error returns included), and
\* every thread that waits for a mutex waits for one whose holder can go on,
\* or whose holder waits for a mutex whose holder can go on.
C38_NoDeadlock ==
    /\ \A t \in LockThreads : "last_content" \in Holds(t) => "clipboard" \notin Wants(t)
    /\ Holds("poller") # Mutexes
    /\ \A t \in LockThreads : lockPc[t] \in {"idle", "sleep", "off"} => Holds(t) = {}
    /\ \A t \in LockThreads : \A m \in Wants(t) :
          \/ mutex[m] = "free"
          \/ CanStep(mutex[m])
          \/ \A n \in Wants(mutex[m]) : mutex[n] # "free" /\ CanStep(mutex[n])

\* A session holds the clipboard inside set_content and waits for last_content,
\* which the poller holds; the other session and get_content wait for the
\* clipboard.
C38_Witness ==
    /\ lockPc["session1"] = "lock_last_content"
    /\ mutex["clipboard"] = "session1"
    /\ mutex["last_content"] = "poller"
    /\ lockPc["session2"] = "lock_clipboard"
    /\ lockPc["getter"] = "lock_clipboard"

(***************************************************************************)
(* The frame channel: broadcast::channel(100), one receiver per session.   *)
(***************************************************************************)
Capacity == 100

Subs == {"s1", "s2"}

\* CaptureManager::new: an empty channel; no session yet.
ChanInit ==
    /\ tail = 0
    /\ subState = [s \in Subs |-> "none"]
    /\ next = [s \in Subs |-> 0]
    /\ lastGot = [s \in Subs |-> 0]
    /\ inOrder = [s \in Subs |-> TRUE]
    /\ prompt = [s \in Subs |-> TRUE]
    /\ flow = "none"

Live == {s \in Subs : subState[s] = "live"}

\* A callback that hands the result of send on to the pipeline.
SampleResultPropagate(sendResult) ==
    IF sendResult = "Err" THEN "FlowError" ELSE "FlowSuccess"

\* `let _ = frame_sender.send(frame); Ok(gst::FlowSuccess::Ok)`
SampleResult(sendResult) == "FlowSuccess"

\* frame_sender.send(frame) with no receiver: Err(SendError), nothing is stored.
PublishNoReceiver ==
    /\ Live = {}
    /\ flow' = SampleResult("Err")
    /\ UNCHANGED <<tail, subState, next, lastGot, inOrder, prompt>>
    /\ ChanOnly

\* The new_sample callback: `let _ = frame_sender.send(frame)`.  With no receiver
\* the frame is dropped; otherwise it is stored at the tail, over the oldest one.
Publish ==
    /\ tail < MaxFrames
    /\ Live # {}
    /\ tail' = tail + 1
    /\ flow' = SampleResult("Ok")
    /\ prompt' = [s \in Subs |->
                    IF s \in Live THEN prompt[s] /\ (tail + 1 - next[s] <= Capacity)
                    ELSE prompt[s]]
    /\ UNCHANGED <<subState, next, lastGot, inOrder>>
    /\ ChanOnly

\* handle_connection: `let mut frame_rx = self.capture_manager.subscribe()`: a
\* receiver that starts at the tail; then frame_task is spawned.
Subscribe(s) ==
    /\ subState[s] = "none"
    /\ subState' = [subState EXCEPT ![s] = "live"]
    /\ next' = [next EXCEPT ![s] = tail]
    /\ lastGot' = [lastGot EXCEPT ![s] = tail]
    /\ UNCHANGED <<tail, inOrder, prompt, flow>>
    /\ ChanOnly

\* A receiver whose oldest unread frame is given up one publication too early.
RecvEarlyLag(n, t) ==
    IF n = t THEN [kind |-> "empty", next |-> n, frame |-> n]
    ELSE IF t - n >= Capacity THEN [kind |-> "lagged", next |-> t - Capacity + 1, frame |-> n]
    ELSE [kind |-> "ok", next |-> n + 1, frame |-> n + 1]

\* frame_rx.recv() for a receiver at position n of a channel with tail t: nothing
\* to read yet; or the frame at n was overwritten (more than Capacity frames were
\* stored since): Lagged, and the receiver moves to the oldest frame kept; or
\* the frame at n.
Recv(n, t) ==
    IF n = t THEN [kind |-> "empty", next |-> n, frame |-> n]
    ELSE IF t - n > Capacity THEN [kind |-> "lagged", next |-> t - Capacity, frame |-> n]
    ELSE [kind |-> "ok", next |-> n + 1, frame |-> n + 1]

\* An end of one session that closes every session's receiver.
EndSubAll(s) ==
    /\ subState' = [t \in Subs |-> IF subState[t] = "live" THEN "ended" ELSE subState[t]]
    /\ next' = [t \in Subs |-> 0]
    /\ lastGot' = [t \in Subs |-> 0]
    /\ UNCHANGED <<tail, inOrder, prompt, flow>>

\* The session's frame_task is over (its loop ended or it was aborted): its
\* receiver is dropped.
EndSub(s) ==
    /\ subState' = [subState EXCEPT ![s] = "ended"]
    /\ next' = [next EXCEPT ![s] = 0]
    /\ lastGot' = [lastGot EXCEPT ![s] = 0]
    /\ UNCHANGED <<tail, inOrder, prompt, flow>>

\* One turn of frame_task: `while let Ok(frame) = frame_rx.recv().await`, then
\* send the Frame message on the sink; `break` when the send fails.
Forward(s, sendOk) ==
    /\ subState[s] = "live"
    /\ LET r == Recv(next[s], tail)
       IN /\ r.kind # "empty"
          /\ IF r.kind = "ok" /\ sendOk
             THEN /\ next' = [next EXCEPT ![s] = r.next]
                  /\ lastGot' = [lastGot EXCEPT ![s] = r.frame]
                  /\ inOrder' = [inOrder EXCEPT ![s] = @ /\ (r.frame = lastGot[s] + 1)]
                  /\ UNCHANGED <<tail, subState, prompt, flow>>
             ELSE EndSub(s)
    /\ ChanOnly

\* The session ends (its inbound loop is over): `frame_task.abort()`.
Close(s) ==
    /\ subState[s] = "live"
    /\ EndSub(s)
    /\ ChanOnly

ChanNext ==
    \/ Publish
    \/ PublishNoReceiver
    \/ \E s \in Subs : Subscribe(s)
    \/ \E s \in Subs : \E sendOk \in BOOLEAN : Forward(s, sendOk)
    \/ \E s \in Subs : Close(s)

\* C10: a live session that never had more than Capacity frames unread has been
\* sent every frame stored since it subscribed up to its read position, each
\* once and in publication order, and its next read does not report a lag; when
\* it has nothing left to read it has been sent all frames published.
C10_PromptSubscribersGetAll ==
    \A s \in Live :
        prompt[s] =>
            /\ inOrder[s]
            /\ lastGot[s] = next[s]
            /\ Recv(next[s], tail).kind # "lagged"
            /\ Recv(next[s], tail).kind = "empty" => lastGot[s] = tail

\* Both sessions are live, never fell behind, and have been sent all of more
\* than Capacity frames, the buffer having wrapped around.
C10_Witness ==
    /\ Live = Subs
    /\ tail > Capacity
    /\ \A s \in Subs : prompt[s] /\ inOrder[s] /\ lastGot[s] = tail

\* The producer can publish now, whatever the sessions' cursors are.
CanPublish == ENABLED (Publish \/ PublishNoReceiver)

\* Sessions whose oldest unread frame has been overwritten.
Lagging == {s \in Live : tail - next[s] > Capacity}

\* C11: publishing never blocks the producer (a publication is enabled whatever
\* the number of sessions and however far they lag) and never fails it (the
\* callback never returns a flow error); a session with more than Capacity
\* frames unread meets a gap on its next read, which moves it to the oldest
\* frame kept; and a publication moves no session's cursor.
C11_PublishNeverBlocks ==
    /\ [](/\ tail < MaxFrames => CanPublish
          /\ flow # "FlowError"
          /\ \A s \in Lagging :
                /\ Recv(next[s], tail).kind = "lagged"
                /\ Recv(next[s], tail).next = tail - Capacity)
    /\ [][tail' # tail =>
            /\ tail' = tail + 1
            /\ next' = next /\ subState' = subState /\ lastGot' = lastGot]_vars

\* One session is more than Capacity frames behind while the other has been
\* sent every frame, and a frame published before any session existed was
\* dropped without failing the callback.
C11_Witness ==
    /\ Live = Subs
    /\ Lagging # {}
    /\ \E s \in Subs : prompt[s] /\ inOrder[s] /\ lastGot[s] = tail
    /\ flow = "FlowSuccess"

\* What the channel holds of one session.
Cursor(s) == <<subState[s], next[s], lastGot[s], inOrder[s], prompt[s]>>

\* C19: a step in which one session ends, by a failed send or by its close,
\* leaves the channel's tail, the callback's result, the clipboard manager and
\* every other session's cursor as they were; with a session ended the producer
\* can still publish, and a live session that reads in time is still sent every
\* frame in order.
C19_SessionEndIsLocal ==
    /\ [][\A s \in Subs :
            (subState[s] = "live" /\ subState'[s] = "ended") =>
                /\ tail' = tail
                /\ flow' = flow
                /\ clipVars' = clipVars
                /\ \A t \in Subs \ {s} : Cursor(t)' = Cursor(t)]_vars
    /\ []((\E s \in Subs : subState[s] = "ended") =>
            /\ tail < MaxFrames => CanPublish
            /\ \A t \in Live : prompt[t] =>
                  inOrder[t] /\ lastGot[t] = next[t]
                  /\ Recv(next[t], tail).kind # "lagged")

\* One session has ended and the other, still live, has been sent every one of
\* the frames published, the last of them successfully stored.
C19_Witness ==
    /\ \E s \in Subs : subState[s] = "ended"
    /\ \E t \in Live : prompt[t] /\ inOrder[t] /\ lastGot[t] = tail /\ next[t] = tail
    /\ tail >= 2
    /\ flow = "FlowSuccess"

(***************************************************************************)
(* build_pipeline: the GStreamer pipeline description of one monitor.      *)
(* A u32 is a pair <<high, low>> of 16-bit halves.                         *)
(***************************************************************************)
Half == 65536

U32 == (0..(Half - 1)) \X (0..(Half - 1))

\* `x * 2` on a u32: the product modulo 2^32, and whether it overflowed.
Mul2(x) ==
    LET low == 2 * x[2]
        high == 2 * x[1] + (low \div Half)
    IN [value |-> <<high % Half, low % Half>>, overflow |-> high >= Half]

\* The framerates tried: 0, 1, 30, 60 (the default), 65535, 65536, 2^31 - 1,
\* 2^31, 2^31 + 30 and 2^32 - 1.
Framerates ==
    {<<0, 0>>, <<0, 1>>, <<0, 30>>, <<0, 60>>, <<0, 65535>>, <<1, 0>>,
     <<32767, 65535>>, <<32768, 0>>, <<32768, 30>>, <<65535, 65535>>}

HardwareAccel == {"None", "Nvenc", "Vaapi", "Auto"}

\* The monitors tried, as the Monitor Directory reports them.
Monitors ==
    {[index |-> 0, x |-> 0, y |-> 0, width |-> 1920, height |-> 1080],
     [index |-> 1, x |-> 1920, y |-> 0, width |-> 1280, height |-> 1024]}

\* QualitySettings tried: the default and a slower, smaller one.
Qualities ==
    {[bitrate |-> 10000, preset |-> "ultrafast"], [bitrate |-> 500, preset |-> "medium"]}

\* is_nvenc_available / is_vaapi_available
is_nvenc_available == "nvcodec" \in registry
is_vaapi_available == "vaapi" \in registry

\* The three encoder elements, each with `config.framerate * 2` as its
\* key-frame property.
X264(c, k) ==
    [element |-> "x264enc", tune |-> "zerolatency", preset |-> c.quality.preset,
     rate |-> "", bitrate |-> c.quality.bitrate, keyname |-> "key-int-max", keyint |-> k]

NvH264(c, k) ==
    [element |-> "nvh264enc", tune |-> "", preset |-> "low-latency-hq",
     rate |-> "rc-mode=cbr", bitrate |-> c.quality.bitrate, keyname |-> "gop-size", keyint |-> k]

VaapiH264(c, k) ==
    [element |-> "vaapih264enc", tune |-> "", preset |-> "",
     rate |-> "rate-control=cbr", bitrate |-> c.quality.bitrate,
     keyname |-> "keyframe-period", keyint |-> k]

\* The three format strings of the HardwareAccel::Auto arm, which are written
\* out a second time there.
AutoNvH264(c, k) ==
    [element |-> "nvh264enc", tune |-> "", preset |-> "low-latency-hq",
     rate |-> "rc-mode=cbr", bitrate |-> c.quality.bitrate, keyname |-> "gop-size", keyint |-> k]

AutoVaapiH264(c, k) ==
    [element |-> "vaapih264enc", tune |-> "", preset |-> "",
     rate |-> "rate-control=cbr", bitrate |-> c.quality.bitrate,
     keyname |-> "keyframe-period", keyint |-> k]

AutoX264(c, k) ==
    [element |-> "x264enc", tune |-> "zerolatency", preset |-> c.quality.preset,
     rate |-> "", bitrate |-> c.quality.bitrate, keyname |-> "key-int-max", keyint |-> k]

\* An Auto arm that asks for VAAPI before NVENC.
EncoderVaapiFirst(c, k) ==
    CASE c.hw_accel = "None" -> X264(c, k)
      [] c.hw_accel = "Nvenc" -> NvH264(c, k)
      [] c.hw_accel = "Vaapi" -> VaapiH264(c, k)
      [] c.hw_accel = "Auto" ->
            IF is_vaapi_available THEN AutoVaapiH264(c, k)
            ELSE IF is_nvenc_available THEN AutoNvH264(c, k)
            ELSE AutoX264(c, k)

\* `let encoder = match config.hw_accel { .. }`
Encoder(c, k) ==
    CASE c.hw_accel = "None" -> X264(c, k)
      [] c.hw_accel = "Nvenc" -> NvH264(c, k)
      [] c.hw_accel = "Vaapi" -> VaapiH264(c, k)
      [] c.hw_accel = "Auto" ->
            IF is_nvenc_available THEN AutoNvH264(c, k)
            ELSE IF is_vaapi_available THEN AutoVaapiH264(c, k)
            ELSE AutoX264(c, k)

\* The description build_pipeline returns; the multiplication panics in a build
\* with overflow checks and wraps in one without.
Description(m, c, checks) ==
    LET k == Mul2(c.framerate)
    IN IF k.overflow /\ checks
       THEN [panicked |-> TRUE]
       ELSE [panicked |-> FALSE,
             source |-> [startx |-> m.x, starty |-> m.y,
                         endx |-> m.x + m.width, endy |-> m.y + m.height],
             framerate_caps |-> c.framerate,
             encoder |-> Encoder(c, k.value)]

PipeInit ==
    /\ monitor \in Monitors
    /\ config \in [framerate : Framerates, hw_accel : HardwareAccel, quality : Qualities]
    /\ registry \in SUBSET {"nvcodec", "vaapi"}
    /\ overflow_checks \in BOOLEAN
    /\ pipeline = [built |-> FALSE]

\* capture_monitor: `let pipeline_str = build_pipeline(&monitor, &config)?`
build_pipeline ==
    /\ ~pipeline.built
    /\ pipeline' = [built |-> TRUE, description |-> Description(monitor, config, overflow_checks)]
    /\ UNCHANGED <<monitor, config, registry, overflow_checks>>
    /\ PipeOnly

PipeNext == build_pipeline

\* 2 x framerate as a number: <<carry, high, low>>.
Twice(x) ==
    LET low == 2 * x[2]
        high == 2 * x[1] + (low \div Half)
    IN <<high \div Half, high % Half, low % Half>>

\* C20 as stated: whatever the monitor, the configuration, the plugins
\* installed and the build, the key-frame interval in a built description is
\* 2 x framerate.
C20_KeyframeIntervalIsTwiceFramerate ==
    (pipeline.built /\ ~pipeline.description.panicked) =>
        <<0>> \o pipeline.description.encoder.keyint = Twice(config.framerate)

\* C21: with hw_accel = Auto the encoder is NVENC when the nvcodec plugin is
\* found, else VAAPI when the vaapi plugin is found, else x264; the description
\* built is the one the selected mode gives when configured explicitly, and it
\* is a function of the monitor, the configuration and the probe alone; with an
\* explicit mode it is the same whatever plugins are found.
C21_AutoSelectsByPrecedence ==
    pipeline.built =>
        LET selected == IF config.hw_accel # "Auto" THEN config.hw_accel
                        ELSE IF "nvcodec" \in registry THEN "Nvenc"
                        ELSE IF "vaapi" \in registry THEN "Vaapi"
                        ELSE "None"
            k == Mul2(config.framerate)
            explicit == CASE selected = "None" -> X264(config, k.value)
                          [] selected = "Nvenc" -> NvH264(config, k.value)
                          [] selected = "Vaapi" -> VaapiH264(config, k.value)
        IN IF k.overflow /\ overflow_checks
           THEN pipeline.description.panicked
           ELSE /\ ~pipeline.description.panicked
                /\ pipeline.description.encoder = explicit
                /\ pipeline.description.framerate_caps = config.framerate
                /\ pipeline.description.source =
                      [startx |-> monitor.x, starty |-> monitor.y,
                       endx |-> monitor.x + monitor.width,
                       endy |-> monitor.y + monitor.height]

\* A description built with Auto while both plugins are found: NVENC.
C21_Witness ==
    /\ pipeline.built
    /\ config.hw_accel = "Auto"
    /\ registry = {"nvcodec", "vaapi"}
    /\ ~pipeline.description.panicked
    /\ pipeline.description.encoder.element = "nvh264enc"

(***************************************************************************)
(* StreamSession::handle_connection: one connection.                       *)
(***************************************************************************)
Tasks == {"frame_task", "clipboard_task"}

\* What get_monitors() can return when it succeeds: one output, or two.
DirResults ==
    {<<[index |-> 0, name |-> "eDP-1", x |-> 0, y |-> 0, width |-> 1920,
        height |-> 1080, primary |-> TRUE]>>,
     <<[index |-> 0, name |-> "eDP-1", x |-> 0, y |-> 0, width |-> 1920,
        height |-> 1080, primary |-> TRUE],
       [index |-> 1, name |-> "HDMI-1", x |-> 1920, y |-> 0, width |-> 1280,
        height |-> 1024, primary |-> FALSE]>>}

\* `monitors.into_iter().map(|m| MonitorInfo { index: m.index, .. }).collect()`
MonitorInfos(monitors) ==
    [i \in DOMAIN monitors |->
        [index |-> monitors[i].index, name |-> monitors[i].name,
         x |-> monitors[i].x, y |-> monitors[i].y, width |-> monitors[i].width,
         height |-> monitors[i].height, primary |-> monitors[i].primary]]

\* ServerMessage::Monitors { monitors: monitor_infos }
MonitorsMsg(monitors) == [type |-> "Monitors", body |-> MonitorInfos(monitors)]

\* ServerMessage::Frame { .. } for frame_task, ServerMessage::Clipboard { .. }
\* for clipboard_task.
ForwardMsg(t) ==
    IF t = "frame_task" THEN [type |-> "Frame", body |-> <<>>]
    ELSE [type |-> "Clipboard", body |-> <<>>]

\* Tasks spawned before the initial Monitors message is sent.
InitialTaskStateEarly(phase) == "recv"

\* The forwarding tasks are spawned after the initial Monitors message was sent.
InitialTaskState(phase) == IF phase = "active" THEN "recv" ELSE "none"

\* `let (mut sink, mut stream) = ws.split()`, then subscribe to the frame and the
\* clipboard channel.
Connect ==
    /\ guard = "Success"
    /\ sess = "none"
    /\ sess' = "subscribed"
    /\ task' = [t \in Tasks |-> InitialTaskState("subscribed")]
    /\ UNCHANGED <<out, directory, rx, endCause, handled, lastIn, hostCalls, sendFailed>>
    /\ SessOnly

\* get_input_handler()?, get_monitors()?, send the Monitors message (`.await?`),
\* spawn frame_task and clipboard_task.
SendInitial(dirOk, sendOk) ==
    /\ sess = "subscribed"
    /\ IF dirOk /\ sendOk
       THEN /\ out' = Append(out, MonitorsMsg(directory))
            /\ sess' = "active"
            /\ task' = [t \in Tasks |->
                          IF task[t] = "none" THEN InitialTaskState("active") ELSE task[t]]
            /\ UNCHANGED sendFailed
       ELSE /\ sess' = "failed"
            /\ sendFailed' = IF dirOk THEN sendFailed \cup {"initial"} ELSE sendFailed
            /\ UNCHANGED <<out, task>>
    /\ UNCHANGED <<directory, rx, endCause, handled, lastIn, hostCalls>>
    /\ SessOnly

\* The Monitor Directory's output changes (an output is plugged in or removed).
DirectoryChange ==
    /\ directory' \in DirResults \ {directory}
    /\ UNCHANGED <<sess, out, task, rx, endCause, handled, lastIn, hostCalls, sendFailed>>
    /\ SessOnly

\* The receiver exists: from subscribe() until the task that owns it is over.
ReceiverAlive(t) == sess = "subscribed" \/ task[t] \in {"recv", "send"}

\* An item is published on the channel and the receiver has not read it yet.
Produce(t) ==
    /\ ReceiverAlive(t)
    /\ rx[t].queued < MaxQueued
    /\ rx' = [rx EXCEPT ![t].queued = @ + 1]
    /\ UNCHANGED <<sess, out, directory, task, endCause, handled, lastIn, hostCalls,
                   sendFailed>>
    /\ SessOnly

\* More items than the channel's capacity were published since the receiver's
\* last read: its oldest unread item has been overwritten.
Overrun(t) ==
    /\ ReceiverAlive(t)
    /\ ~rx[t].lagged
    /\ rx' = [rx EXCEPT ![t] = [queued |-> MaxQueued, lagged |-> TRUE]]
    /\ UNCHANGED <<sess, out, directory, task, endCause, handled, lastIn, hostCalls,
                   sendFailed>>
    /\ SessOnly

\* recv() on a receiver: Err(Lagged) once after an overrun, else the next item,
\* else nothing yet.
RxRecv(r) ==
    IF r.lagged THEN [kind |-> "lagged", rx |-> [r EXCEPT !.lagged = FALSE]]
    ELSE IF r.queued > 0 THEN [kind |-> "ok", rx |-> [r EXCEPT !.queued = @ - 1]]
    ELSE [kind |-> "empty", rx |-> r]

\* `while let Ok(item) = rx.recv().await`: an item is taken in hand, or the loop
\* ends on Err.
TaskRecv(t) ==
    /\ task[t] = "recv"
    /\ LET r == RxRecv(rx[t])
       IN /\ r.kind # "empty"
          /\ rx' = [rx EXCEPT ![t] = r.rx]
          /\ IF r.kind = "ok"
             THEN /\ task' = [task EXCEPT ![t] = "send"]
                  /\ UNCHANGED endCause
             ELSE /\ task' = [task EXCEPT ![t] = "ended"]
                  /\ endCause' = [endCause EXCEPT ![t] = "lagged"]
    /\ UNCHANGED <<sess, out, directory, handled, lastIn, hostCalls, sendFailed>>
    /\ SessOnly

\* Serialize the item, lock the sink and send it; `break` when the send fails.
TaskSend(t, sendOk) ==
    /\ task[t] = "send"
    /\ Len(out) < MaxOut
    /\ IF sendOk
       THEN /\ out' = Append(out, ForwardMsg(t))
            /\ task' = [task EXCEPT ![t] = "recv"]
            /\ UNCHANGED <<endCause, sendFailed>>
       ELSE /\ task' = [task EXCEPT ![t] = "ended"]
            /\ endCause' = [endCause EXCEPT ![t] = "send failed"]
            /\ sendFailed' = sendFailed \cup {t}
            /\ UNCHANGED out
    /\ UNCHANGED <<sess, directory, rx, handled, lastIn, hostCalls>>
    /\ SessOnly

\* JoinHandle::abort(): a task suspended in recv() is dropped at once; a task
\* with an item in hand is dropped when it next suspends, which is before or
\* after its send; a task that is over stays as it is.
AbortTask(state) ==
    CASE state = "recv" -> "aborted"
      [] state = "send" -> "aborting"
      [] OTHER -> state

\* The aborted task was running: it finishes its send before it is dropped.
TaskSendLate(t, sendOk) ==
    /\ task[t] = "aborting"
    /\ Len(out) < MaxOut
    /\ task' = [task EXCEPT ![t] = "aborted"]
    /\ endCause' = [endCause EXCEPT ![t] = "aborted"]
    /\ IF sendOk
       THEN out' = Append(out, ForwardMsg(t)) /\ UNCHANGED sendFailed
       ELSE sendFailed' = sendFailed \cup {t} /\ UNCHANGED out
    /\ UNCHANGED <<sess, directory, rx, handled, lastIn, hostCalls>>
    /\ SessOnly

\* The aborted task was suspended at the sink: it is dropped without sending.
TaskCancel(t) ==
    /\ task[t] = "aborting"
    /\ task' = [task EXCEPT ![t] = "aborted"]
    /\ endCause' = [endCause EXCEPT ![t] = "aborted"]
    /\ UNCHANGED <<sess, out, directory, rx, handled, lastIn, hostCalls, sendFailed>>
    /\ SessOnly

(***************************************************************************)
(* The input handler (X11InputHandler) and the inbound loop.               *)
(***************************************************************************)
\* The key names tried: one of the table (in the client's spelling) and one
\* that is not in it.
Keys == {"A", "unknownkey123"}

\* str::to_lowercase on the key names tried.
to_lowercase(k) ==
    CASE k = "A" -> "a"
      [] k = "Enter" -> "enter"
      [] OTHER -> k

\* A key table that passes an unmapped name on as a raw key.
to_rdev_key_raw(key_str) ==
    LET k == to_lowercase(key_str)
    IN CASE k = "a" -> [some |-> TRUE, key |-> "KeyA"]
         [] k \in {"enter", "return"} -> [some |-> TRUE, key |-> "Return"]
         [] OTHER -> [some |-> TRUE, key |-> "Unknown"]

\* X11InputHandler::to_rdev_key (the entries for the names tried; `_ => None`).
to_rdev_key(key_str) ==
    LET k == to_lowercase(key_str)
    IN CASE k = "a" -> [some |-> TRUE, key |-> "KeyA"]
         [] k \in {"enter", "return"} -> [some |-> TRUE, key |-> "Return"]
         [] OTHER -> [some |-> FALSE, key |-> ""]

\* The lower-case names to_rdev_key has an entry for, among the names tried.
KeyTable == {"a", "enter", "return"}

\* The input events tried.
Events ==
    {[type |-> "KeyDown", key |-> k, dx |-> 0, dy |-> 0] : k \in Keys}
    \cup {[type |-> "KeyUp", key |-> "A", dx |-> 0, dy |-> 0],
          [type |-> "Move", key |-> "", dx |-> 3, dy |-> 4],
          [type |-> "Scroll", key |-> "", dx |-> 1, dy |-> 1]}

NoEvent == [type |-> "", key |-> "", dx |-> 0, dy |-> 0]

\* One call of rdev's simulate: the event, and whether the host took it.
Simulated(kind, arg, ok) == [kind |-> kind, arg |-> arg, ok |-> ok]

\* X11InputHandler::handle_keyboard; `fail` is the number of the simulate call
\* that fails (0: none does).
handle_keyboard(e, fail) ==
    LET k == to_rdev_key(e.key)
    IN IF ~k.some THEN [result |-> "Unknown key", calls |-> <<>>]
       ELSE IF e.type = "KeyDown"
       THEN [result |-> IF fail = 1 THEN "Failed to press key" ELSE "Ok",
             calls |-> <<Simulated("KeyPress", k.key, fail # 1)>>]
       ELSE [result |-> IF fail = 1 THEN "Failed to release key" ELSE "Ok",
             calls |-> <<Simulated("KeyRelease", k.key, fail # 1)>>]

\* X11InputHandler::handle_mouse for Move and Scroll.
handle_mouse(e, fail) ==
    IF e.type = "Move"
    THEN [result |-> IF fail = 1 THEN "Failed to move mouse" ELSE "Ok",
          calls |-> <<Simulated("MouseMove", <<e.dx, e.dy>>, fail # 1)>>]
    ELSE LET first == IF e.dy # 0 THEN <<Simulated("Wheel", <<0, e.dy>>, fail # 1)>>
                      ELSE <<>>
             n == Len(first) + 1
             second == IF e.dx # 0 /\ ~(e.dy # 0 /\ fail = 1)
                       THEN <<Simulated("Wheel", <<e.dx, 0>>, fail # n)>>
                       ELSE <<>>
             calls == first \o second
         IN [result |-> IF \E i \in DOMAIN calls : ~calls[i].ok
                        THEN "Failed to scroll" ELSE "Ok",
             calls |-> calls]

\* InputHandler::handle_event
handle_event(e, fail) ==
    IF e.type \in {"KeyDown", "KeyUp"} THEN handle_keyboard(e, fail)
    ELSE handle_mouse(e, fail)

\* The inbound loop is waiting in stream.next().
Reading == sess = "active" /\ handled < MaxInbound

InMsg(type, e, result) == [msg |-> [type |-> type, event |-> e], result |-> result]

\* An inbound loop that puts the host calls of a message before those of the
\* messages handled earlier.
InboundInputUnordered(e, fail) ==
    /\ Reading
    /\ LET h == handle_event(e, fail)
       IN /\ hostCalls' = h.calls \o hostCalls
          /\ lastIn' = InMsg("Input", e, h.result)
    /\ handled' = handled + 1
    /\ UNCHANGED <<sess, out, directory, task, rx, endCause, sendFailed>>
    /\ SessOnly

\* ClientMessage::Input { event }: handle_event; an error is logged.
InboundInput(e, fail) ==
    /\ Reading
    /\ LET h == handle_event(e, fail)
       IN /\ hostCalls' = hostCalls \o h.calls
          /\ lastIn' = InMsg("Input", e, h.result)
    /\ handled' = handled + 1
    /\ UNCHANGED <<sess, out, directory, task, rx, endCause, sendFailed>>
    /\ SessOnly

\* A set_content that records the text as last_content before it writes the
\* host clipboard.
InboundClipboardRecordsFirst(t, ok) ==
    /\ Reading
    /\ cbHolder = "free"
    /\ last_content' = t
    /\ IF ok
       THEN /\ host' = t
            /\ setArg' = t
            /\ setResult' = "ok"
            /\ afterSet' = <<t, 0>>
       ELSE /\ setResult' = "err"
            /\ UNCHANGED <<host, setArg, afterSet>>
    /\ lastIn' = InMsg("Clipboard", NoEvent, IF ok THEN "Ok" ELSE "Failed to set clipboard")
    /\ handled' = handled + 1
    /\ UNCHANGED <<cbHolder, pollPc, pollContent, clip_sent, nSets, nCopies>>
    /\ UNCHANGED <<sess, out, directory, task, rx, endCause, hostCalls, sendFailed>>
    /\ UNCHANGED <<coordVars, chanVars, pipeVars, dirVars, routeVars, userVars, capVars,
                   lockVars>>

\* ClientMessage::Clipboard { text }: clipboard_manager.set_content(&text); an
\* error is logged.
InboundClipboard(t, ok) ==
    /\ Reading
    /\ cbHolder = "free"
    /\ IF ok
       THEN /\ host' = t
            /\ last_content' = t
            /\ setArg' = t
            /\ setResult' = "ok"
            /\ afterSet' = <<t, 0>>
       ELSE /\ setResult' = "err"
            /\ UNCHANGED <<host, last_content, setArg, afterSet>>
    /\ lastIn' = InMsg("Clipboard", NoEvent, IF ok THEN "Ok" ELSE "Failed to set clipboard")
    /\ handled' = handled + 1
    /\ UNCHANGED <<cbHolder, pollPc, pollContent, clip_sent, nSets, nCopies>>
    /\ UNCHANGED <<sess, out, directory, task, rx, endCause, hostCalls, sendFailed>>
    /\ UNCHANGED <<coordVars, chanVars, pipeVars, dirVars, routeVars, userVars, capVars,
                   lockVars>>

\* ClientMessage::GetMonitors: `if let Ok(monitors) = get_monitors()`, then
\* `let _ = sink.send(..)`.
InboundGetMonitors(dirOk, sendOk) ==
    /\ Reading
    /\ Len(out) < MaxOut
    /\ IF dirOk /\ sendOk
       THEN out' = Append(out, MonitorsMsg(directory)) /\ UNCHANGED sendFailed
       ELSE /\ sendFailed' = IF dirOk THEN sendFailed \cup {"monitors"} ELSE sendFailed
            /\ UNCHANGED out
    /\ lastIn' = InMsg("GetMonitors", NoEvent,
                       IF ~dirOk THEN "directory failed"
                       ELSE IF sendOk THEN "sent" ELSE "send failed")
    /\ handled' = handled + 1
    /\ UNCHANGED <<sess, directory, task, rx, endCause, hostCalls>>
    /\ SessOnly

\* A text that is no ClientMessage ("Invalid": from_str fails), or a message
\* that is no text and no close ("Other": `_ => {}`): nothing is done.
InboundIgnored(kind) ==
    /\ Reading
    /\ lastIn' = InMsg(kind, NoEvent, "ignored")
    /\ handled' = handled + 1
    /\ UNCHANGED <<sess, out, directory, task, rx, endCause, hostCalls, sendFailed>>
    /\ SessOnly

\* Message::Close ("Close"), Err(e) ("Error"), or the stream is over ("End"):
\* leave the loop, abort both tasks, return Ok.
InboundEnd(kind) ==
    /\ sess = "active"
    /\ sess' = "closed"
    /\ task' = [t \in Tasks |-> AbortTask(task[t])]
    /\ endCause' = [t \in Tasks |-> IF task[t] = "recv" THEN "aborted" ELSE endCause[t]]
    /\ lastIn' = InMsg(kind, NoEvent, "closed")
    /\ handled' = handled + 1
    /\ UNCHANGED <<out, directory, rx, hostCalls, sendFailed>>
    /\ SessOnly

\* Before the connection: no message sent, no task, empty receivers.
SessInit ==
    /\ sess = "none"
    /\ out = <<>>
    /\ directory \in DirResults
    /\ task = [t \in Tasks |-> "none"]
    /\ rx = [t \in Tasks |-> [queued |-> 0, lagged |-> FALSE]]
    /\ endCause = [t \in Tasks |-> "none"]
    /\ handled = 0
    /\ lastIn = InMsg("", NoEvent, "")
    /\ hostCalls = <<>>
    /\ sendFailed = {}

TaskStep(t) ==
    \/ TaskRecv(t)
    \/ \E sendOk \in BOOLEAN : TaskSend(t, sendOk)
    \/ \E sendOk \in BOOLEAN : TaskSendLate(t, sendOk)
    \/ TaskCancel(t)

Inbound ==
    \/ \E e \in Events : \E fail \in 0..2 : InboundInput(e, fail)
    \/ \E t \in {"x", "y"} : \E ok \in BOOLEAN : InboundClipboard(t, ok)
    \/ \E dirOk \in BOOLEAN : \E sendOk \in BOOLEAN : InboundGetMonitors(dirOk, sendOk)
    \/ \E kind \in {"Invalid", "Other"} : InboundIgnored(kind)
    \/ \E kind \in {"Close", "Error", "End"} : InboundEnd(kind)

\* The connection is set up, or the Monitor Directory changes.
Establish ==
    \/ Connect
    \/ \E dirOk \in BOOLEAN : \E sendOk \in BOOLEAN : SendInitial(dirOk, sendOk)
    \/ DirectoryChange

\* The channels and the forwarding tasks.
Forwarding == \E t \in Tasks : Produce(t) \/ Overrun(t) \/ TaskStep(t)

\* The inbound messages that send on the sink or end the session.
InboundSink ==
    \/ \E dirOk \in BOOLEAN : \E sendOk \in BOOLEAN : InboundGetMonitors(dirOk, sendOk)
    \/ \E kind \in {"Close", "Error", "End"} : InboundEnd(kind)

SessNext == Establish \/ Forwarding \/ Inbound

\* The outbound side of a connection: the forwarding tasks, the Monitors
\* replies and the end of the session.
ForwardingNext == Establish \/ Forwarding \/ InboundSink

\* The inbound side of a connection, while nothing is published.
InboundNext == Establish \/ Inbound

(***************************************************************************)
(* Properties of a connection.                                             *)
(***************************************************************************)
\* C12: a forwarding task whose subscription lagged skips forward and keeps
\* forwarding; a forwarding task is over only because one of its sends failed
\* (or because it was cancelled when the session closed, which is the state
\* "aborted", not "ended").
C12_ForwardingStopsOnlyOnSendFailure ==
    \A t \in Tasks : task[t] = "ended" => endCause[t] = "send failed"

\* C13: the first server message of a connection is the Monitors message built
\* from the Monitor Directory's output at that time; no Frame and no Clipboard
\* message precedes it.
C13_MonitorsFirst ==
    /\ [](out # <<>> => out[1].type = "Monitors")
    /\ [][out = <<>> /\ out' # <<>> => out' = <<MonitorsMsg(directory)>>]_vars

\* The Monitors message of a two-output directory was sent, and a Frame and a
\* Clipboard message after it.
C13_Witness ==
    /\ Len(out) = 3
    /\ Len(directory) = 2
    /\ out[1] = MonitorsMsg(directory)
    /\ {out[2].type, out[3].type} = {"Frame", "Clipboard"}

\* C14: after a failed send of frame_task, of clipboard_task or of a Monitors
\* reply to GetMonitors, the session becomes Closed.
C14_SendFailureCloses ==
    (sendFailed \cap (Tasks \cup {"monitors"}) # {}) ~> (sess = "closed")

\* C15: when the inbound stream closes, fails or is over, the session becomes
\* Closed, and no server message is sent on a Closed session.
C15_NothingSentAfterClose ==
    [][/\ (handled' = handled + 1 /\ lastIn'.msg.type \in {"Close", "Error", "End"})
           => sess' = "closed"
       /\ sess = "closed" => out' = out]_vars

\* C16: handling an Input message leaves the session Active and changes nothing
\* but the host's input (so the messages after it are handled as they would be
\* without it), whether the injection succeeded or failed; when the key name
\* is not in the key table the handler fails with "Unknown key" and no host
\* input call is made.
C16_InputErrorsAreSkipped ==
    [][(handled' = handled + 1 /\ lastIn'.msg.type = "Input") =>
          /\ sess = "active" /\ sess' = "active"
          /\ UNCHANGED <<out, directory, task, rx, endCause, sendFailed>>
          /\ UNCHANGED clipVars
          /\ (/\ lastIn'.msg.event.type \in {"KeyDown", "KeyUp"}
              /\ to_lowercase(lastIn'.msg.event.key) \notin KeyTable)
             => (lastIn'.result = "Unknown key" /\ hostCalls' = hostCalls)]_vars

\* An earlier Input message was injected, then one with an unknown key name
\* failed, and the session is Active.
C16_Witness ==
    /\ sess = "active"
    /\ handled >= 2
    /\ hostCalls # <<>>
    /\ lastIn.msg.type = "Input"
    /\ lastIn.msg.event.key = "unknownkey123"
    /\ lastIn.result = "Unknown key"

\* C17: a GetMonitors message handled by an Active session is answered with
\* the Monitors message of the Monitor Directory's output at that time (unless
\* the send of the answer fails).
C17_GetMonitorsIsAnswered ==
    [][(/\ handled' = handled + 1
        /\ lastIn'.msg.type = "GetMonitors"
        /\ lastIn'.result # "send failed")
       => out' = Append(out, MonitorsMsg(directory))]_vars

\* C18: an inbound text that is no valid client message is answered with an
\* Error message.
C18_InvalidMessageGetsError ==
    [][(handled' = handled + 1 /\ lastIn'.msg.type = "Invalid")
       => (Len(out') = Len(out) + 1 /\ out'[Len(out')].type = "Error")]_vars

\* C39: when the host clipboard write of a Clipboard message's set_content
\* fails, set_content returns an error, the host clipboard and last_content
\* are as before, nothing is published or sent, and the session stays Active.
C39_FailedWriteChangesNothing ==
    [][(/\ handled' = handled + 1
        /\ lastIn'.msg.type = "Clipboard"
        /\ lastIn'.result = "Failed to set clipboard")
       => /\ setResult' = "err"
          /\ UNCHANGED <<host, last_content, clip_sent, afterSet>>
          /\ sess = "active" /\ sess' = "active"
          /\ UNCHANGED <<out, task, endCause, hostCalls>>]_vars

\* A Clipboard message was written to the host and recorded; the write of
\* the next one, with another text, failed: the first text is still on the
\* clipboard and is still last_content, and the session is Active.
C39_Witness ==
    /\ handled = 2
    /\ lastIn.msg.type = "Clipboard"
    /\ lastIn.result = "Failed to set clipboard"
    /\ setResult = "err"
    /\ host = last_content
    /\ last_content = setArg
    /\ setArg \in {"x", "y"}
    /\ sess = "active"

\* C34: the inbound messages of a session are handled one at a time in the
\* order of their arrival: a step takes one message and ends with the outcome
\* of its handling, before the next message is read; host input calls are
\* made only by the handling of an Input message, and they come after all the
\* calls made for the messages before it, in the order handle_event makes
\* them.
C34_InboundInOrder ==
    [][/\ handled' # handled => (handled' = handled + 1 /\ lastIn'.result # "")
       /\ lastIn' # lastIn => handled' = handled + 1
       /\ hostCalls' # hostCalls => (handled' = handled + 1 /\ lastIn'.msg.type = "Input")
       /\ (handled' = handled + 1 /\ lastIn'.msg.type = "Input") =>
             \E fail \in 0..2 :
                LET h == handle_event(lastIn'.msg.event, fail)
                IN hostCalls' = hostCalls \o h.calls /\ lastIn'.result = h.result
       /\ (handled' = handled + 1 /\ lastIn'.msg.type # "Input") => hostCalls' = hostCalls]_vars

\* Two Input messages were handled: the host took the key press of the first
\* and then the mouse move of the second.
C34_Witness ==
    /\ handled = 2
    /\ lastIn.msg.type = "Input" /\ lastIn.msg.event.type = "Move"
    /\ Len(hostCalls) = 2
    /\ hostCalls[1].kind = "KeyPress"
    /\ hostCalls[2].kind = "MouseMove"

(***************************************************************************)
(* The Monitor Directory: get_monitors / get_monitors_x11.                 *)
(***************************************************************************)
\* What RandR can say of one output: whether it is connected and which CRTC
\* drives it (0: none), with the CRTC's geometry.
Outputs ==
    {[connected |-> c, crtc |-> k, name |-> "HDMI-1", x |-> 1920, y |-> 0,
      width |-> 1280, height |-> 1024] : c \in BOOLEAN, k \in {0, 63}}

\* The root screens tried.
Screens ==
    {[width_in_pixels |-> 1920, height_in_pixels |-> 1080],
     [width_in_pixels |-> 3200, height_in_pixels |-> 1080]}

\* The output lists tried: up to MaxOutputs outputs.
OutputLists == UNION {[1..n -> Outputs] : n \in 0..MaxOutputs}

\* The X request that fails in a call of get_monitors_x11: none, the
\* connection, get_screen_resources, or get_output_info / get_crtc_info of
\* the output at position idx.
Failures ==
    {[call |-> c, idx |-> 0] : c \in {"none", "connect", "resources"}}
    \cup {[call |-> c, idx |-> i] : c \in {"output_info", "crtc_info"}, i \in 1..MaxOutputs}

\* `for (idx, output) in resources.outputs.iter().enumerate() { .. }` from
\* position pos on, with the monitors pushed so far.
RECURSIVE ScanOutputs(_, _, _, _)
ScanOutputs(outputs, pos, monitors, fail) ==
    IF pos > Len(outputs) THEN [ok |-> TRUE, monitors |-> monitors]
    ELSE IF fail = [call |-> "output_info", idx |-> pos] THEN [ok |-> FALSE, monitors |-> <<>>]
    ELSE IF ~outputs[pos].connected THEN ScanOutputs(outputs, pos + 1, monitors, fail)
    ELSE IF outputs[pos].crtc = 0 THEN ScanOutputs(outputs, pos + 1, monitors, fail)
    ELSE IF fail = [call |-> "crtc_info", idx |-> pos] THEN [ok |-> FALSE, monitors |-> <<>>]
    ELSE ScanOutputs(outputs, pos + 1,
            Append(monitors,
                [index |-> pos - 1, name |-> outputs[pos].name, x |-> outputs[pos].x,
                 y |-> outputs[pos].y, width |-> outputs[pos].width,
                 height |-> outputs[pos].height, primary |-> (pos - 1 = 0)]),
            fail)

\* A directory without the fallback monitor.
FallbackNone(monitors, screen) == monitors

\* `if monitors.is_empty() { monitors.push(MonitorInfo { .. "Default" .. }) }`
Fallback(monitors, screen) ==
    IF monitors = <<>>
    THEN <<[index |-> 0, name |-> "Default", x |-> 0, y |-> 0,
            width |-> screen.width_in_pixels, height |-> screen.height_in_pixels,
            primary |-> TRUE]>>
    ELSE monitors

\* get_monitors_x11 on X server `server` when the request `fail` fails.
get_monitors_x11(server, fail) ==
    IF fail.call \in {"connect", "resources"} THEN [ok |-> FALSE, monitors |-> <<>>]
    ELSE LET scan == ScanOutputs(server.outputs, 1, <<>>, fail)
         IN IF ~scan.ok THEN scan
            ELSE [ok |-> TRUE, monitors |-> Fallback(scan.monitors, server.screen)]

DirInit ==
    /\ xserver \in [screen : Screens, outputs : OutputLists]
    /\ listed = [called |-> FALSE]

\* get_monitors()
get_monitors ==
    /\ \E fail \in Failures :
          listed' = [called |-> TRUE, fail |-> fail, result |-> get_monitors_x11(xserver, fail)]
    /\ UNCHANGED xserver
    /\ DirOnly

DirNext == get_monitors

\* The outputs that are connected and driven by a CRTC.
Usable(outputs) == {i \in DOMAIN outputs : outputs[i].connected /\ outputs[i].crtc # 0}

\* C22: get_monitors never returns Ok with an empty list; when no output is
\* both connected and driven it returns exactly one monitor: index 0, at
\* (0, 0), of the root screen's width and height, primary.
C22_NeverEmptyFallback ==
    (listed.called /\ listed.result.ok) =>
        /\ Len(listed.result.monitors) >= 1
        /\ Usable(xserver.outputs) = {} =>
              /\ Len(listed.result.monitors) = 1
              /\ LET m == listed.result.monitors[1]
                 IN /\ m.index = 0 /\ m.x = 0 /\ m.y = 0
                    /\ m.width = xserver.screen.width_in_pixels
                    /\ m.height = xserver.screen.height_in_pixels
                    /\ m.primary

\* The directory answered for a server with two outputs of which none is
\* usable (one not connected, one connected but not driven).
C22_Witness ==
    /\ listed.called
    /\ listed.result.ok
    /\ Len(xserver.outputs) = 2
    /\ ~xserver.outputs[1].connected
    /\ xserver.outputs[2].connected /\ xserver.outputs[2].crtc = 0
    /\ listed.result.monitors[1].name = "Default"

\* C32: in every list get_monitors returns with Ok the first entry is marked
\* primary, whatever outputs the X server reports as connected, not
\* connected or not driven.
C32_FirstIsPrimary ==
    (listed.called /\ listed.result.ok) => listed.result.monitors[1].primary

\* C33: in every list get_monitors returns with Ok the index of each entry is
\* its position in the list, counted from 0: the ordinal by which
\* start_capture looks the entry up.
C33_IndexIsPosition ==
    (listed.called /\ listed.result.ok) =>
        \A i \in DOMAIN listed.result.monitors : listed.result.monitors[i].index = i - 1

(***************************************************************************)
(* The /stream route and its UserGuard.                                    *)
(***************************************************************************)
\* The Authorization header values tried: a token decode_token accepts, one
\* it rejects, and a header of another scheme.
AuthHeaders == {"Bearer good", "Bearer expired", "Basic dXNlcg=="}

\* The requests tried: no, one or two Authorization headers.
Requests == UNION {[1..n -> AuthHeaders] : n \in 0..2}

\* `keys[0].starts_with(BEARER)`
starts_with_bearer(h) == h \in {"Bearer good", "Bearer expired"}

\* `&keys[0][BEARER.len()..]`
token_of(h) == IF h = "Bearer good" THEN "good" ELSE "expired"

\* decode_token(token, secret): signature and expiry are checked.
decode_token(token) == IF token = "good" THEN "Ok" ELSE "Err"

\* <Claims as FromRequest>::from_request
ClaimsGuard(keys) ==
    IF Len(keys) # 1 THEN "Unauthorized"
    ELSE IF ~starts_with_bearer(keys[1]) THEN "Unauthorized"
    ELSE IF decode_token(token_of(keys[1])) = "Ok" THEN "Success"
    ELSE "Unauthorized"

\* A guard that lets every request pass.
UserGuardOpen(keys) == "Success"

\* <AuthGuard<0> as FromRequest>::from_request: for Role::User valid claims
\* are enough.
UserGuard(keys) ==
    IF ClaimsGuard(keys) # "Success" THEN "Unauthorized" ELSE "Success"

RouteInit ==
    /\ request \in Requests
    /\ guard = "pending"

\* GET /stream: the guards run; the handler (and with it handle_connection)
\* runs only when they succeed.
stream ==
    /\ guard = "pending"
    /\ guard' = UserGuard(request)
    /\ UNCHANGED request
    /\ RouteOnly

RouteNext == stream

\* A /stream request and the connection it opens, on its inbound side.
StreamNext == RouteNext \/ InboundNext

\* C23: a session exists only for a request that carried exactly one
\* Authorization header with a valid bearer token and that the guard passed;
\* for any other request nothing is subscribed, no server message is sent and
\* no client message is dispatched.
C23_SessionOnlyBehindGuard ==
    LET authenticated == Len(request) = 1 /\ request[1] = "Bearer good"
    IN /\ sess # "none" => (guard = "Success" /\ authenticated)
       /\ ~authenticated =>
             /\ guard \in {"pending", "Unauthorized"}
             /\ sess = "none" /\ task = [t \in Tasks |-> "none"]
             /\ out = <<>> /\ handled = 0 /\ hostCalls = <<>>

\* A request with an expired token was answered Unauthorized.
C23_Witness ==
    /\ request = <<"Bearer expired">>
    /\ guard = "Unauthorized"
    /\ sess = "none"

(***************************************************************************)
(* The /create_user route.                                                 *)
(***************************************************************************)
\* A request that has not arrived yet.
NoRequest == [pc |-> "none", auth_guard |-> "None", admin |-> FALSE,
              existing_count |-> 0, status |-> ""]

UserInit ==
    /\ users = <<>>
    /\ creq = [r \in 1..MaxRequests |-> NoRequest]

\* A row with admin = true exists: what AdminGuard's query needs to succeed.
AdminExists == \E i \in DOMAIN users : users[i].admin

\* POST /create_user arrives with its form; the guards run. auth_guard is
\* Some only for a valid token of an existing admin user.
Arrive(r, authed, admin) ==
    /\ creq[r].pc = "none"
    /\ r > 1 => creq[r - 1].pc # "none"
    /\ authed => AdminExists
    /\ creq' = [creq EXCEPT ![r] = [pc |-> "arrived",
                                    auth_guard |-> IF authed THEN "Some" ELSE "None",
                                    admin |-> admin, existing_count |-> 0, status |-> ""]]
    /\ UNCHANGED users
    /\ UserOnly

\* `if existing_count > 0 && auth_guard.is_none() { return Err(Unauthorized) }`
MayProceed(existing_count, auth_guard) ==
    ~(existing_count > 0 /\ auth_guard = "None")

\* `users.count().get_result(conn)` with `.unwrap_or(0)`, then the check.
Count(r, ok) ==
    /\ creq[r].pc = "arrived"
    /\ LET existing_count == IF ok THEN Len(users) ELSE 0
       IN creq' = [creq EXCEPT ![r] =
                     IF MayProceed(existing_count, creq[r].auth_guard)
                     THEN [@ EXCEPT !.pc = "checked", !.existing_count = existing_count]
                     ELSE [@ EXCEPT !.pc = "done", !.existing_count = existing_count,
                                    !.status = "Unauthorized"]]
    /\ UNCHANGED users
    /\ UserOnly

\* Hash the password and the PIN, insert the row: "BadRequest" for a PIN that
\* is no number of 4 to 6 digits, "InternalServerError" when hashing or the
\* insert fails, else the row is inserted and the answer is "User created".
Insert(r, outcome) ==
    /\ creq[r].pc = "checked"
    /\ creq' = [creq EXCEPT ![r] = [@ EXCEPT !.pc = "done", !.status = outcome]]
    /\ users' = IF outcome = "Ok"
                THEN Append(users, [admin |-> creq[r].admin, by |-> r,
                                    auth_guard |-> creq[r].auth_guard])
                ELSE users
    /\ UserOnly

create_user(r) ==
    \/ \E authed \in BOOLEAN : \E admin \in BOOLEAN : Arrive(r, authed, admin)
    \/ \E ok \in BOOLEAN : Count(r, ok)
    \/ \E outcome \in {"Ok", "BadRequest", "InternalServerError"} : Insert(r, outcome)

UserNext == \E r \in 1..MaxRequests : create_user(r)

\* C24: at most one user is ever created by a request without admin
\* authentication, and an unauthenticated request answered while a user
\* exists is answered Unauthorized.
C24_OneUnauthenticatedUser ==
    /\ Cardinality({i \in DOMAIN users : users[i].auth_guard = "None"}) <= 1
    /\ \A r \in 1..MaxRequests :
          (creq[r].pc = "done" /\ creq[r].auth_guard = "None" /\ creq[r].status = "Ok")
             => \E i \in DOMAIN users : users[i].by = r /\ i = 1

(***************************************************************************)
(* CaptureManager::start, start_capture and capture_monitor.               *)
(***************************************************************************)
\* The config.monitors lists tried: empty, one monitor, two, one monitor
\* twice, and one with an ordinal no monitor has.
CapLists == {<<>>, <<0>>, <<1>>, <<0, 1>>, <<0, 0>>, <<0, 2>>}

\* The lists get_monitors() can return for up to two outputs, by the index
\* of their entries: the first output or the fallback monitor alone, the
\* second output alone, both outputs.
CapDirectories == {<<0>>, <<1>>, <<0, 1>>}

CapInit ==
    /\ capMonitors \in CapLists
    /\ capDirectory \in CapDirectories
    /\ capUnits = <<>>
    /\ started = "no"
    /\ stopped = -1

\* A task spawned for the monitor whose index field is idx (`monitor_idx =
\* monitor.index` is what its frames report): capture_monitor has not run yet.
NewUnit(idx) ==
    [monitor_index |-> idx, state |-> "Idle", pipeline |-> "none", published |-> 0,
     cause |-> ""]

\* `for monitor_idx in &config.monitors { if *monitor_idx >= monitors.len()
\* { continue; } let monitor = &monitors[*monitor_idx]; .. tokio::spawn(..) }`
\* from position pos on.
RECURSIVE Launch(_, _, _)
Launch(list, pos, dir) ==
    IF pos > Len(list) THEN <<>>
    ELSE IF list[pos] >= Len(dir) THEN Launch(list, pos + 1, dir)
    ELSE <<NewUnit(dir[list[pos] + 1])>> \o Launch(list, pos + 1, dir)

\* CaptureManager::start -> start_capture: gst::init()?, get_monitors()?, one
\* task per entry of config.monitors that is in range; Ok(()).
start(ok) ==
    /\ IF ok
       THEN LET launched == Launch(capMonitors, 1, capDirectory)
            IN /\ Len(capUnits) + Len(launched) <= MaxCapUnits
               /\ capUnits' = capUnits \o launched
               /\ started' = "Ok"
       ELSE /\ started' = "Err"
            /\ UNCHANGED capUnits
    /\ UNCHANGED <<capMonitors, capDirectory, stopped>>
    /\ CapOnly

\* CaptureManager::stop: `log::info!("Stopping screen capture")` and nothing
\* else; it holds no handle of the tasks start() spawned.
stop ==
    /\ stopped' = Len(capUnits)
    /\ UNCHANGED <<capMonitors, capDirectory, capUnits, started>>
    /\ CapOnly

\* How capture_monitor can get on before its bus loop: the pipeline is
\* playing; parse::launch fails (no pipeline); the cast or the appsink lookup
\* fails (a pipeline that was never started); set_state(Playing) fails before
\* or after the pipeline left the null state.
Builds ==
    {[ok |-> TRUE, pipeline |-> "playing", cause |-> ""],
     [ok |-> FALSE, pipeline |-> "none", cause |-> "launch failed"],
     [ok |-> FALSE, pipeline |-> "null", cause |-> "no appsink"],
     [ok |-> FALSE, pipeline |-> "null", cause |-> "start failed"],
     [ok |-> FALSE, pipeline |-> "ready", cause |-> "start failed"]}

\* capture_monitor up to `pipeline.set_state(gst::State::Playing)?`; an Err is
\* returned as it is (and logged by the task), the pipeline is dropped.
UnitBuild(u, b) ==
    /\ u \in DOMAIN capUnits
    /\ capUnits[u].state = "Idle"
    /\ capUnits' = [capUnits EXCEPT ![u] =
                       [@ EXCEPT !.state = IF b.ok THEN "Running" ELSE "Errored",
                                 !.pipeline = b.pipeline, !.cause = b.cause]]
    /\ UNCHANGED <<capMonitors, capDirectory, started, stopped>>
    /\ CapOnly

\* The new_sample callback of a playing pipeline publishes a frame.
UnitFrame(u) ==
    /\ u \in DOMAIN capUnits
    /\ capUnits[u].state = "Running"
    /\ capUnits[u].pipeline = "playing"
    /\ capUnits[u].published < MaxUnitFrames
    /\ capUnits' = [capUnits EXCEPT ![u].published = @ + 1]
    /\ UNCHANGED <<capMonitors, capDirectory, started, stopped>>
    /\ CapOnly

\* A teardown that stops every unit.
TeardownAll(units, u, msg) ==
    [v \in DOMAIN units |->
        IF units[v].state = "Running"
        THEN [units[v] EXCEPT !.state = IF msg = "Eos" THEN "Ended" ELSE "Errored",
                              !.pipeline = "null", !.cause = msg]
        ELSE units[v]]

\* `break` out of the bus loop on Eos or Error, then
\* `pipeline.set_state(gst::State::Null)?` and the task is over.
Teardown(units, u, msg) ==
    [units EXCEPT ![u] = [@ EXCEPT !.state = IF msg = "Eos" THEN "Ended" ELSE "Errored",
                                   !.pipeline = "null", !.cause = msg]]

\* The bus loop takes a message: Eos and Error end the unit, any other is
\* passed over.
UnitBus(u, msg) ==
    /\ u \in DOMAIN capUnits
    /\ capUnits[u].state = "Running"
    /\ capUnits' = IF msg \in {"Eos", "Error"} THEN Teardown(capUnits, u, msg)
                   ELSE capUnits
    /\ UNCHANGED <<capMonitors, capDirectory, started, stopped>>
    /\ CapOnly

CaptureStep(u) ==
    \/ \E b \in Builds : UnitBuild(u, b)
    \/ UnitFrame(u)
    \/ \E msg \in {"Eos", "Error", "StateChanged"} : UnitBus(u, msg)

CapNext ==
    \/ \E ok \in BOOLEAN : start(ok)
    \/ \E u \in 1..MaxCapUnits : CaptureStep(u)

Terminal == {"Ended", "Errored"}

\* C27: a unit goes from Idle to Running and from Running to Ended (end of
\* stream) or Errored (pipeline error), or from Idle to Errored when its
\* pipeline does not start; Ended and Errored are final, a unit in them
\* publishes nothing, and its pipeline, if it has one, is in the null state.
C27_UnitLifecycle ==
    /\ [](\A u \in DOMAIN capUnits :
            capUnits[u].state \in Terminal => capUnits[u].pipeline \in {"null", "none"})
    /\ [][\A u \in DOMAIN capUnits :
            /\ capUnits'[u].state # capUnits[u].state =>
                  \/ capUnits[u].state = "Idle" /\ capUnits'[u].state \in {"Running", "Errored"}
                  \/ capUnits[u].state = "Running" /\ capUnits'[u].state \in Terminal
            /\ capUnits[u].state \in Terminal => capUnits'[u] = capUnits[u]]_vars

\* C28: a step in which one unit becomes Ended or Errored (at its build, on a
\* pipeline error or at the end of its stream) changes no other unit, and a
\* start() that succeeds spawns a unit for every configured monitor in range
\* whatever became of the units before.
C28_UnitFailureIsLocal ==
    [][/\ \A u \in DOMAIN capUnits :
            (capUnits'[u].state # capUnits[u].state /\ capUnits'[u].state \in Terminal)
               => \A v \in DOMAIN capUnits \ {u} : capUnits'[v] = capUnits[v]
       /\ Len(capUnits') > Len(capUnits) =>
            /\ started' = "Ok"
            /\ SubSeq(capUnits', 1, Len(capUnits)) = capUnits
            /\ \A i \in DOMAIN capMonitors :
                  capMonitors[i] < Len(capDirectory) =>
                     \E v \in (Len(capUnits) + 1)..Len(capUnits') :
                        capUnits'[v] = NewUnit(capDirectory[capMonitors[i] + 1])]_vars

\* One unit has failed and another has ended, while a third, spawned by a
\* later start(), is running and has published.
C28_Witness ==
    /\ Len(capUnits) >= 3
    /\ \E u, v, w \in DOMAIN capUnits :
          /\ capUnits[u].state = "Errored"
          /\ capUnits[v].state = "Ended"
          /\ capUnits[w].state = "Running" /\ capUnits[w].published >= 1

\* C29: two units that are running capture different monitors.
C29_OneUnitPerMonitor ==
    \A u, v \in DOMAIN capUnits :
        (u # v /\ capUnits[u].state = "Running" /\ capUnits[v].state = "Running")
           => capUnits[u].monitor_index # capUnits[v].monitor_index

\* C30: after a start() that succeeded with an empty config.monitors there is
\* a unit for every monitor of the directory.
C30_EmptyMeansAll ==
    (started = "Ok" /\ capMonitors = <<>>) =>
        \A m \in DOMAIN capDirectory :
            \E u \in DOMAIN capUnits : capUnits[u].monitor_index = capDirectory[m]

\* The capture manager when stop() is called as well; stop() changes nothing
\* of the manager or its units.
CapStopNext == CapNext \/ stop

IsRunning(u) == u \in DOMAIN capUnits /\ capUnits[u].state = "Running"

\* C31: every unit that is Running when stop() is called eventually is not
\* Running any more, and a unit that has left Running publishes no further
\* frame; stop() itself waits for no unit: it returns without a unit having
\* changed.
C31_StopHaltsUnits ==
    /\ \A u \in 1..MaxCapUnits :
          []((u <= stopped /\ IsRunning(u)) => <>(~IsRunning(u)))
    /\ [][/\ \A u \in DOMAIN capUnits :
              capUnits[u].state \in Terminal
                 => capUnits'[u].published = capUnits[u].published
          /\ stopped' # stopped => capUnits' = capUnits]_vars

(***************************************************************************)
(* The specifications.                                                     *)
(***************************************************************************)
\* The clipboard manager before anything was copied on the host.
ClipRest == ClipInit /\ host = ""

\* A capture unit with the default configuration on the first monitor.
PipeRest ==
    /\ PipeInit
    /\ monitor.index = 0
    /\ config = [framerate |-> <<0, 60>>, hw_accel |-> "Auto",
                 quality |-> [bitrate |-> 10000, preset |-> "ultrafast"]]
    /\ registry = {}
    /\ ~overflow_checks

\* No connection yet, one output connected.
SessRest == SessInit /\ Len(directory) = 1

\* An X server with one usable output, not asked yet.
DirRest ==
    /\ DirInit
    /\ xserver.screen.width_in_pixels = 1920
    /\ Len(xserver.outputs) = 1
    /\ xserver.outputs[1].connected /\ xserver.outputs[1].crtc # 0

\* A /stream request that the guard has let pass.
RouteRest == request = <<"Bearer good">> /\ guard = "Success"

\* No user yet, no create_user request.
UserRest == UserInit

\* The default capture configuration, not started.
CapRest == CapInit /\ capMonitors = <<0>> /\ capDirectory = <<0>>

\* No call of the clipboard manager in progress.
LockRest == LockInit

\* The components added to the server that are at rest in a specification
\* of another component.
OthersRest == DirRest /\ RouteRest /\ UserRest /\ CapRest /\ LockRest

\* The whole server after construction, and its steps.
Init ==
    /\ CoordInit /\ ClipInit /\ ChanInit /\ PipeInit /\ SessInit
    /\ DirInit /\ RouteInit /\ UserInit /\ CapInit /\ LockInit

Next ==
    \/ CoordNext \/ ClipNext \/ ChanNext \/ PipeNext \/ SessNext
    \/ DirNext \/ RouteNext \/ UserNext \/ CapStopNext \/ LockNext

Spec == Init /\ [][Next]_vars

\* The shutdown coordinator.
InitCoord == CoordInit /\ ClipRest /\ ChanInit /\ PipeRest /\ SessRest /\ OthersRest

SpecCoord == InitCoord /\ [][CoordNext]_vars

\* The coordinator when the monitor thread is scheduled within its polling
\* interval and every thread that can step eventually does.
SpecCoordLive ==
    /\ InitCoord
    /\ [][CoordNextTimely]_vars
    /\ WF_vars(MonitorStep)
    /\ WF_vars(TimeoutStep)
    /\ WF_vars(TimelyTick)
    /\ WF_vars(Join)
    /\ WF_vars(WaitReturn)
    /\ \A i \in 1..(MaxUnits + 2) : WF_vars(UnitObserve(i))

\* The clipboard manager.
InitClip == CoordInit /\ ClipInit /\ ChanInit /\ PipeRest /\ SessRest /\ OthersRest

SpecClip == InitClip /\ [][ClipNext]_vars

\* The frame channel and the sessions' forwarding tasks.
InitChan == CoordInit /\ ClipRest /\ ChanInit /\ PipeRest /\ SessRest /\ OthersRest

SpecChan == InitChan /\ [][ChanNext]_vars

\* One capture unit building its pipeline description.
InitPipe == CoordInit /\ ClipRest /\ ChanInit /\ PipeInit /\ SessRest /\ OthersRest

SpecPipe == InitPipe /\ [][PipeNext]_vars

\* One connection served by handle_connection.
InitSess == CoordInit /\ ClipRest /\ ChanInit /\ PipeRest /\ SessInit /\ OthersRest

\* Its outbound side.
SpecForwarding == InitSess /\ [][ForwardingNext]_vars

\* The same when each forwarding task that can step eventually does; what the
\* client sends, and when, is left open.
SpecForwardingLive ==
    /\ InitSess
    /\ [][ForwardingNext]_vars
    /\ \A t \in Tasks : WF_vars(TaskStep(t))

\* Its inbound side.
SpecInbound == InitSess /\ [][InboundNext]_vars

\* The Monitor Directory asked on any of the X servers tried.
InitDir ==
    /\ CoordInit /\ ClipRest /\ ChanInit /\ PipeRest /\ SessRest
    /\ DirInit /\ RouteRest /\ UserRest /\ CapRest /\ LockRest

SpecDir == InitDir /\ [][DirNext]_vars

\* A /stream request and the connection it opens.
InitStream ==
    /\ CoordInit /\ ClipRest /\ ChanInit /\ PipeRest /\ SessInit
    /\ DirRest /\ RouteInit /\ UserRest /\ CapRest /\ LockRest

SpecStream == InitStream /\ [][StreamNext]_vars

\* The create_user requests on an empty users table.
InitUser ==
    /\ CoordInit /\ ClipRest /\ ChanInit /\ PipeRest /\ SessRest
    /\ DirRest /\ RouteRest /\ UserInit /\ CapRest /\ LockRest

SpecUser == InitUser /\ [][UserNext]_vars

\* The capture manager and its units.
InitCap ==
    /\ CoordInit /\ ClipRest /\ ChanInit /\ PipeRest /\ SessRest
    /\ DirRest /\ RouteRest /\ UserRest /\ CapInit /\ LockRest

SpecCap == InitCap /\ [][CapNext]_vars

\* The same when every spawned task is eventually run by the runtime; what
\* the pipeline posts on its bus, and when, is left open.
SpecCapLive ==
    /\ InitCap
    /\ [][CapStopNext]_vars
    /\ \A u \in 1..MaxCapUnits : WF_vars(\E b \in Builds : UnitBuild(u, b))

\* The clipboard manager's mutexes.
InitLock ==
    /\ CoordInit /\ ClipRest /\ ChanInit /\ PipeRest /\ SessRest
    /\ DirRest /\ RouteRest /\ UserRest /\ CapRest /\ LockInit

SpecLock == InitLock /\ [][LockNext]_vars

==========================================================================
